---------------------------- MODULE Spec2Model ----------------------------
(***************************************************************************)
(* Model of the database explorer tree of rbeaver                          *)
(* (src/src/ui/database_tree.rs): the per-connection metadata cache, the   *)
(* expansion maps, the three fetch-need queues, the search filter and the  *)
(* single-slot pending action.                                             *)
(*                                                                         *)
(* Strings are TLA+ strings, HashMap<String, V> is a function whose        *)
(* domain is a finite set of strings, Vec<T> is a sequence and Option<T>   *)
(* is a sequence of length 0 (None) or 1 (Some).  Path keys are built by   *)
(* string concatenation exactly as format! builds them.                    *)
(*                                                                         *)
(* A render pass is modelled by the handler of the one widget that         *)
(* receives the pointer event of that frame.  Whether the body of a        *)
(* CollapsingHeader is laid out is decided by egui's own per-id memory     *)
(* (default_open only seeds it), so a child header can receive a click     *)
(* whenever the code path that draws it is not cut by one of the early     *)
(* returns or data look-ups of database_tree.rs.                           *)
(***************************************************************************)
EXTENDS Integers, Sequences, FiniteSets, TLC

VARIABLES
    connections,                \* HashMap<String, ConnectionNode>
    saved_connections,          \* Vec<ConnectionParams> (id, name)
    expanded_connections,       \* HashMap<String, bool>
    expanded_saved_connections, \* HashMap<String, bool>
    expanded_schemas,           \* HashMap<String, bool>
    expanded_object_categories, \* HashMap<String, bool>
    expanded_tables,            \* HashMap<String, bool>
    selected_item,              \* Option<TreeItem>
    search_text,                \* String
    show_search,                \* bool
    is_loading,                 \* bool
    schemas_needing_tables,     \* Vec<(String, String)>
    schemas_needing_objects,    \* Vec<(String, String, ObjectCategory)>
    tables_needing_columns,     \* Vec<(String, String, String)>
    pending_action,             \* Option<(ConnectionAction, String)>
    last_call,                  \* the last operation: its name, its arguments and the value it returned
    write_count,                \* history: number of writes to pending_action so far
    slot_write,                 \* history: number of the write the slot holds (0: none)
    delivered,                  \* history: numbers of the writes get_pending_action returned, in order
    overwritten,                \* history: indices of the writes that were replaced in the slot
    app_connections,            \* RBeaverApp.connections: the ids that hold an open connection
    last_error,                 \* RBeaverApp.last_error: Option<String>
    pending_connection_deletion, \* RBeaverApp.pending_connection_deletion: Option<String>
    settings_connections,       \* AppSettings.connections: Vec<ConnectionParams>
    confirmation_dialog,        \* ConfirmationDialog: every field of the struct
    app_saved_connections,      \* RBeaverApp.saved_connections: Vec<ConnectionParams>
    active_connection           \* RBeaverApp.active_connection: Option<String>

vars == <<connections, saved_connections, expanded_connections,
          expanded_saved_connections, expanded_schemas,
          expanded_object_categories, expanded_tables, selected_item,
          search_text, show_search, is_loading, schemas_needing_tables,
          schemas_needing_objects, tables_needing_columns, pending_action,
          last_call, write_count, slot_write, delivered, overwritten,
          app_connections, last_error, pending_connection_deletion,
          settings_connections, confirmation_dialog, app_saved_connections,
          active_connection>>

\* The part of the state that DatabaseTree owns (every field of the struct).
tree == <<connections, saved_connections, expanded_connections,
          expanded_saved_connections, expanded_schemas,
          expanded_object_categories, expanded_tables, selected_item,
          search_text, show_search, is_loading, schemas_needing_tables,
          schemas_needing_objects, tables_needing_columns, pending_action>>

history == <<write_count, slot_write, delivered, overwritten>>

\* The fields of RBeaverApp (src/src/app.rs) that decide what reaches the tree.
controller == <<app_connections, last_error, pending_connection_deletion,
                settings_connections, confirmation_dialog,
                app_saved_connections, active_connection>>

-----------------------------------------------------------------------------
(* Bounds of the model *)

MaxQueue == 2
MaxCategories == 1
MaxWrites == 3

-----------------------------------------------------------------------------
(* Option, HashMap and string helpers *)

None == << >>
Some(v) == <<v>>

EmptyMap == [k \in {} |-> FALSE]

contains_key(m, k) == k \in DOMAIN m

insert(m, k, v) == [x \in (DOMAIN m) \cup {k} |-> IF x = k THEN v ELSE m[x]]

remove(m, k) == [x \in (DOMAIN m) \ {k} |-> m[x]]

get_or(m, k, d) == IF k \in DOMAIN m THEN m[k] ELSE d

starts_with(s, p) == Len(s) >= Len(p) /\ SubSeq(s, 1, Len(p)) = p

\* HashMap::retain with the predicate !key.starts_with(prefix)
retain_not_prefixed(m, p) ==
    [x \in {k \in DOMAIN m : ~starts_with(k, p)} |-> m[x]]

\* str::contains
contains(s, sub) ==
    \E i \in 1..(Len(s) - Len(sub) + 1) : SubSeq(s, i, i + Len(sub) - 1) = sub

to_lowercase_char(ch) ==
    CASE ch = "U" -> "u"
      [] ch = "S" -> "s"
      [] ch = "E" -> "e"
      [] ch = "R" -> "r"
      [] ch = "I" -> "i"
      [] ch = "D" -> "d"
      [] ch = "X" -> "x"
      [] OTHER -> ch

RECURSIVE to_lowercase(_)
to_lowercase(s) ==
    IF Len(s) = 0 THEN ""
    ELSE to_lowercase_char(SubSeq(s, 1, 1)) \o to_lowercase(SubSeq(s, 2, Len(s)))

-----------------------------------------------------------------------------
(* Category model and ObjectCounts *)

Tables == "Tables"
Views == "Views"
Functions == "Functions"
Triggers == "Triggers"
Sequences == "Sequences"
Indexes == "Indexes"

OtherCategories == {Views, Functions, Triggers, Sequences, Indexes}

ObjectCounts_default ==
    [tables |-> 0, views |-> 0, materialized_views |-> 0, functions |-> 0,
     procedures |-> 0, triggers |-> 0, sequences |-> 0, indexes |-> 0]

ConnectionNode_new(connection_id, connection_name) ==
    [connection_id |-> connection_id,
     connection_name |-> connection_name,
     schemas |-> << >>,
     tables |-> EmptyMap,
     columns |-> EmptyMap,
     views |-> EmptyMap,
     functions |-> EmptyMap,
     triggers |-> EmptyMap,
     sequences |-> EmptyMap,
     indexes |-> EmptyMap,
     object_counts |-> EmptyMap,
     is_connected |-> FALSE]

\* format!("{}.{}", connection_id, schema.name)
schema_key(c, s) == c \o "." \o s

\* format!("{}.{}.{:?}", connection_id, schema_name, category)
category_key(c, s, K) == c \o "." \o s \o "." \o K

\* format!("{}.{}.{}", connection_id, schema_name, table.name)
table_key(c, s, t) == c \o "." \o s \o "." \o t

\* format!("{}.{}", schema_name, table.name)
column_key(s, t) == s \o "." \o t

\* the cache map of a node that holds the objects of category K
category_cache(node, K) ==
    CASE K = Tables -> node.tables
      [] K = Views -> node.views
      [] K = Functions -> node.functions
      [] K = Triggers -> node.triggers
      [] K = Sequences -> node.sequences
      [] K = Indexes -> node.indexes


-----------------------------------------------------------------------------
(* Initial state: DatabaseTree::default() *)

\* impl Default for ConfirmationDialog
ConfirmationDialog_default ==
    [show |-> FALSE,
     title |-> "Confirm",
     message |-> "Are you sure?",
     confirm_text |-> "Yes",
     cancel_text |-> "Cancel",
     confirmed |-> FALSE,
     cancelled |-> FALSE]

Init ==
    /\ connections = EmptyMap
    /\ saved_connections = << >>
    /\ expanded_connections = EmptyMap
    /\ expanded_saved_connections = EmptyMap
    /\ expanded_schemas = EmptyMap
    /\ expanded_object_categories = EmptyMap
    /\ expanded_tables = EmptyMap
    /\ selected_item = None
    /\ search_text = ""
    /\ show_search = FALSE
    /\ is_loading = FALSE
    /\ schemas_needing_tables = << >>
    /\ schemas_needing_objects = << >>
    /\ tables_needing_columns = << >>
    /\ pending_action = None
    /\ last_call = [op |-> "new", args |-> << >>, ret |-> << >>]
    /\ write_count = 0
    /\ slot_write = 0
    /\ delivered = << >>
    /\ overwritten = {}
    /\ app_connections = {}
    /\ last_error = None
    /\ pending_connection_deletion = None
    /\ settings_connections = << >>
    /\ confirmation_dialog = ConfirmationDialog_default
    /\ app_saved_connections = << >>
    /\ active_connection = None

expansion == <<expanded_connections, expanded_saved_connections,
               expanded_schemas, expanded_object_categories, expanded_tables>>

queues == <<schemas_needing_tables, schemas_needing_objects,
            tables_needing_columns>>

search == <<search_text, show_search>>

\* a call on the tree, recorded in last_call; the tree never reaches into
\* the controller
Call(op, args, ret) ==
    /\ last_call' = [op |-> op, args |-> args, ret |-> ret]
    /\ UNCHANGED controller

\* a call that returns nothing and does not touch the pending action
Unit(op, args) == Call(op, args, << >>) /\ UNCHANGED history

-----------------------------------------------------------------------------
(* Cache mutation entry points *)

\* variant: adding a node drops the expansion flags under its id, as
\* remove_connection does
add_connection_collapsing(connection_id, connection_name) ==
    /\ connections' = insert(connections, connection_id,
                             ConnectionNode_new(connection_id, connection_name))
    /\ expanded_object_categories' =
           retain_not_prefixed(expanded_object_categories,
                               connection_id \o ".")
    /\ expanded_tables' =
           retain_not_prefixed(expanded_tables, connection_id \o ".")
    /\ UNCHANGED <<saved_connections, expanded_connections,
                   expanded_saved_connections, expanded_schemas,
                   selected_item, search, is_loading, queues, pending_action>>
    /\ Unit("add_connection", <<connection_id, connection_name>>)

\* variant: an existing node is kept (entry().or_insert) instead of replaced
add_connection_keep(connection_id, connection_name) ==
    /\ connections' =
           IF contains_key(connections, connection_id)
           THEN connections
           ELSE insert(connections, connection_id,
                       ConnectionNode_new(connection_id, connection_name))
    /\ UNCHANGED <<saved_connections, expansion, selected_item, search,
                   is_loading, queues, pending_action>>
    /\ Unit("add_connection", <<connection_id, connection_name>>)

add_connection(connection_id, connection_name) ==
    /\ connections' = insert(connections, connection_id,
                             ConnectionNode_new(connection_id, connection_name))
    /\ UNCHANGED <<saved_connections, expansion, selected_item, search,
                   is_loading, queues, pending_action>>
    /\ Unit("add_connection", <<connection_id, connection_name>>)

\* the entries of a queue that do not name the connection
without_connection(queue, connection_id) ==
    SelectSeq(queue, LAMBDA e : e[1] # connection_id)

\* variant: the removal also drops what is queued, pending or selected for
\* the connection
remove_connection_purging(connection_id) ==
    /\ connections' = remove(connections, connection_id)
    /\ expanded_connections' = remove(expanded_connections, connection_id)
    /\ expanded_schemas' =
           retain_not_prefixed(expanded_schemas, connection_id \o ".")
    /\ expanded_tables' =
           retain_not_prefixed(expanded_tables, connection_id \o ".")
    /\ schemas_needing_tables' =
           without_connection(schemas_needing_tables, connection_id)
    /\ schemas_needing_objects' =
           without_connection(schemas_needing_objects, connection_id)
    /\ tables_needing_columns' =
           without_connection(tables_needing_columns, connection_id)
    /\ selected_item' =
           IF selected_item # None
              /\ selected_item[1].connection_id = connection_id
           THEN None ELSE selected_item
    /\ UNCHANGED <<saved_connections, expanded_saved_connections,
                   expanded_object_categories, search, is_loading,
                   pending_action>>
    /\ Unit("remove_connection", <<connection_id>>)

remove_connection(connection_id) ==
    /\ connections' = remove(connections, connection_id)
    /\ expanded_connections' = remove(expanded_connections, connection_id)
    /\ expanded_schemas' =
           retain_not_prefixed(expanded_schemas, connection_id \o ".")
    /\ expanded_tables' =
           retain_not_prefixed(expanded_tables, connection_id \o ".")
    /\ UNCHANGED <<saved_connections, expanded_saved_connections,
                   expanded_object_categories, selected_item, search,
                   is_loading, queues, pending_action>>
    /\ Unit("remove_connection", <<connection_id>>)

\* variant: the node is created when it is missing (entry().or_insert_with)
with_connection_or_insert(connection_id, field, value) ==
    LET node == IF contains_key(connections, connection_id)
                THEN connections[connection_id]
                ELSE ConnectionNode_new(connection_id, "")
    IN insert(connections, connection_id, [node EXCEPT ![field] = value])

\* if let Some(connection) = self.connections.get_mut(connection_id) { connection.<field> = value }
with_connection(connection_id, field, value) ==
    IF contains_key(connections, connection_id)
    THEN [connections EXCEPT ![connection_id][field] = value]
    ELSE connections

\* variant: the node is created when it is missing
with_connection_insert_or_create(connection_id, field, key, value) ==
    LET node == IF contains_key(connections, connection_id)
                THEN connections[connection_id]
                ELSE ConnectionNode_new(connection_id, "")
    IN insert(connections, connection_id,
              [node EXCEPT ![field] = insert(node[field], key, value)])

\* if let Some(connection) = ... { connection.<field>.insert(key, value) }
with_connection_insert(connection_id, field, key, value) ==
    IF contains_key(connections, connection_id)
    THEN with_connection(connection_id, field,
                         insert(connections[connection_id][field], key, value))
    ELSE connections

set_connection_status(connection_id, is_connected) ==
    /\ connections' = with_connection(connection_id, "is_connected", is_connected)
    /\ UNCHANGED <<saved_connections, expansion, selected_item, search,
                   is_loading, queues, pending_action>>
    /\ Unit("set_connection_status", <<connection_id, is_connected>>)

set_schemas(connection_id, schemas) ==
    /\ connections' = with_connection(connection_id, "schemas", schemas)
    /\ is_loading' = FALSE
    /\ UNCHANGED <<saved_connections, expansion, selected_item, search,
                   queues, pending_action>>
    /\ Unit("set_schemas", <<connection_id, schemas>>)

\* variant: a list setter appends to the entry the key already holds
set_cache_append(op, args, connection_id, field, key, value) ==
    /\ connections' =
           IF /\ contains_key(connections, connection_id)
              /\ contains_key(connections[connection_id][field], key)
              /\ field # "object_counts"
           THEN with_connection_insert(
                    connection_id, field, key,
                    connections[connection_id][field][key] \o value)
           ELSE with_connection_insert(connection_id, field, key, value)
    /\ UNCHANGED <<saved_connections, expansion, selected_item, search,
                   is_loading, queues, pending_action>>
    /\ Unit(op, args)

\* the body shared by the map setters: insert into one cache map of the node
set_cache(op, args, connection_id, field, key, value) ==
    /\ connections' = with_connection_insert(connection_id, field, key, value)
    /\ UNCHANGED <<saved_connections, expansion, selected_item, search,
                   is_loading, queues, pending_action>>
    /\ Unit(op, args)

\* variant: the list is stored under the connection id instead of the schema
set_tables_wrong_key(connection_id, schema, tables) ==
    set_cache("set_tables", <<connection_id, schema, tables>>,
              connection_id, "tables", connection_id, tables)

set_tables(connection_id, schema, tables) ==
    set_cache("set_tables", <<connection_id, schema, tables>>,
              connection_id, "tables", schema, tables)

set_columns(connection_id, schema, table, columns) ==
    set_cache("set_columns", <<connection_id, schema, table, columns>>,
              connection_id, "columns", column_key(schema, table), columns)

set_views(connection_id, schema, views) ==
    set_cache("set_views", <<connection_id, schema, views>>,
              connection_id, "views", schema, views)

set_functions(connection_id, schema, functions) ==
    set_cache("set_functions", <<connection_id, schema, functions>>,
              connection_id, "functions", schema, functions)

set_triggers(connection_id, schema, triggers) ==
    set_cache("set_triggers", <<connection_id, schema, triggers>>,
              connection_id, "triggers", schema, triggers)

set_sequences(connection_id, schema, sequences) ==
    set_cache("set_sequences", <<connection_id, schema, sequences>>,
              connection_id, "sequences", schema, sequences)

set_indexes(connection_id, schema, indexes) ==
    set_cache("set_indexes", <<connection_id, schema, indexes>>,
              connection_id, "indexes", schema, indexes)

set_object_counts(connection_id, schema, counts) ==
    set_cache("set_object_counts", <<connection_id, schema, counts>>,
              connection_id, "object_counts", schema, counts)

clear ==
    /\ connections' = EmptyMap
    /\ expanded_connections' = EmptyMap
    /\ expanded_schemas' = EmptyMap
    /\ expanded_object_categories' = EmptyMap
    /\ expanded_tables' = EmptyMap
    /\ selected_item' = None
    /\ is_loading' = FALSE
    /\ UNCHANGED <<saved_connections, expanded_saved_connections, search,
                   queues, pending_action>>
    /\ Unit("clear", <<>>)

set_loading(loading) ==
    /\ is_loading' = loading
    /\ UNCHANGED <<connections, saved_connections, expansion, selected_item,
                   search, queues, pending_action>>
    /\ Unit("set_loading", <<loading>>)

set_saved_connections(saved) ==
    /\ saved_connections' = saved
    /\ UNCHANGED <<connections, expansion, selected_item, search, is_loading,
                   queues, pending_action>>
    /\ Unit("set_saved_connections", <<saved>>)

-----------------------------------------------------------------------------
(* Drain entry points *)

get_schemas_needing_tables ==
    /\ Call("get_schemas_needing_tables", << >>, schemas_needing_tables)
    /\ schemas_needing_tables' = << >>
    /\ UNCHANGED <<connections, saved_connections, expansion, selected_item,
                   search, is_loading, schemas_needing_objects,
                   tables_needing_columns, pending_action, history>>

get_schemas_needing_objects ==
    /\ Call("get_schemas_needing_objects", << >>, schemas_needing_objects)
    /\ schemas_needing_objects' = << >>
    /\ UNCHANGED <<connections, saved_connections, expansion, selected_item,
                   search, is_loading, schemas_needing_tables,
                   tables_needing_columns, pending_action, history>>

\* variant: the queue is handed back but not cleared
get_tables_needing_columns_peek ==
    /\ Call("get_tables_needing_columns", << >>, tables_needing_columns)
    /\ UNCHANGED <<tree, history>>

get_tables_needing_columns ==
    /\ Call("get_tables_needing_columns", << >>, tables_needing_columns)
    /\ tables_needing_columns' = << >>
    /\ UNCHANGED <<connections, saved_connections, expansion, selected_item,
                   search, is_loading, schemas_needing_tables,
                   schemas_needing_objects, pending_action, history>>

\* variant: the slot is read but not cleared (as_ref / clone instead of take)
get_pending_action_peek ==
    /\ Call("get_pending_action", << >>, pending_action)
    /\ pending_action' = pending_action
    /\ delivered' = IF pending_action # None
                    THEN Append(delivered, slot_write)
                    ELSE delivered
    /\ UNCHANGED <<connections, saved_connections, expansion, selected_item,
                   search, is_loading, queues, write_count, slot_write,
                   overwritten>>

\* self.pending_action.take()
get_pending_action ==
    /\ Call("get_pending_action", << >>, pending_action)
    /\ pending_action' = None
    /\ delivered' = IF pending_action # None
                    THEN Append(delivered, slot_write)
                    ELSE delivered
    /\ slot_write' = 0
    /\ UNCHANGED <<connections, saved_connections, expansion, selected_item,
                   search, is_loading, queues, write_count, overwritten>>

-----------------------------------------------------------------------------
(* Search filter *)

\* matches_search with the filter text given explicitly
name_matches(name, text) ==
    text = "" \/ contains(to_lowercase(name), to_lowercase(text))

matches_search(name) == name_matches(name, search_text)

\* variant: a category whose list has not been fetched counts as a match
has_matches_unloaded(conns, text, connection_id, schema_name, category) ==
    \/ text = ""
    \/ /\ contains_key(conns, connection_id)
       /\ category \in {Tables} \cup OtherCategories
       /\ LET cache == category_cache(conns[connection_id], category)
          IN \/ ~contains_key(cache, schema_name)
             \/ \E i \in 1..Len(cache[schema_name]) :
                    name_matches(cache[schema_name][i], text)

\* category_has_matches over an explicit node map and filter text
has_matches(conns, text, connection_id, schema_name, category) ==
    \/ text = ""
    \/ /\ contains_key(conns, connection_id)
       /\ category \in {Tables} \cup OtherCategories
       /\ contains_key(category_cache(conns[connection_id], category), schema_name)
       /\ LET objects == category_cache(conns[connection_id], category)[schema_name]
          IN \E i \in 1..Len(objects) : name_matches(objects[i], text)

category_has_matches(connection_id, schema_name, category) ==
    has_matches(connections, search_text, connection_id, schema_name, category)

\* variant: materialized views and procedures are left out of the aggregate
category_count_plain(category, counts) ==
    CASE category = Tables -> counts.tables
      [] category = Views -> counts.views
      [] category = Functions -> counts.functions
      [] category = Triggers -> counts.triggers
      [] category = Sequences -> counts.sequences
      [] category = Indexes -> counts.indexes
      [] OTHER -> 0

\* the count render_object_category derives from the schema's ObjectCounts
category_count(category, counts) ==
    CASE category = Tables -> counts.tables
      [] category = Views -> counts.views + counts.materialized_views
      [] category = Functions -> counts.functions + counts.procedures
      [] category = Triggers -> counts.triggers
      [] category = Sequences -> counts.sequences
      [] category = Indexes -> counts.indexes
      [] OTHER -> 0

\* variant: a schema without a counts entry is drawn as if it had one table
schema_counts_assumed(conns, connection_id, schema_name) ==
    IF contains_key(conns, connection_id)
    THEN get_or(conns[connection_id].object_counts, schema_name,
                [ObjectCounts_default EXCEPT !.tables = 1])
    ELSE ObjectCounts_default

\* the counts render_schema_node hands to render_object_category
schema_counts(conns, connection_id, schema_name) ==
    IF contains_key(conns, connection_id)
    THEN get_or(conns[connection_id].object_counts, schema_name,
                ObjectCounts_default)
    ELSE ObjectCounts_default

\* render_object_category gets past both early returns and draws the header
category_shown(conns, text, connection_id, schema_name, category) ==
    /\ category_count(category,
                      schema_counts(conns, connection_id, schema_name)) # 0
    /\ ~(text # "" /\ ~has_matches(conns, text, connection_id, schema_name,
                                   category))

-----------------------------------------------------------------------------
(* Which nodes a render pass reaches *)

saved_ids == {saved_connections[i].id : i \in 1..Len(saved_connections)}

\* variant: the tree content is drawn during loading as well
tree_content_rendered_while_loading ==
    ~(DOMAIN connections = {} /\ saved_connections = << >>)

\* render(): neither the spinner nor the "No database connections" branch
tree_content_rendered ==
    /\ ~is_loading
    /\ ~(DOMAIN connections = {} /\ saved_connections = << >>)

saved_connection_node_rendered(id) ==
    tree_content_rendered /\ id \in saved_ids

\* variant: the second loop draws every node, saved or not
connection_node_rendered_always(connection_id) ==
    /\ tree_content_rendered
    /\ contains_key(connections, connection_id)

connection_node_rendered(connection_id) ==
    /\ tree_content_rendered
    /\ contains_key(connections, connection_id)
    /\ connection_id \notin saved_ids

\* render_tree_content: the number of top-level nodes one pass draws for an
\* id, one per saved record with the id in the first loop and the plain
\* node of the second loop
nodes_drawn_for(id) ==
    IF ~tree_content_rendered THEN 0
    ELSE Cardinality({i \in 1..Len(saved_connections) :
                         saved_connections[i].id = id})
         + (IF connection_node_rendered(id) THEN 1 ELSE 0)

schema_node_rendered(connection_id, schema_name) ==
    /\ tree_content_rendered
    /\ contains_key(connections, connection_id)
    /\ \E i \in 1..Len(connections[connection_id].schemas) :
           connections[connection_id].schemas[i] = schema_name

object_category_rendered(connection_id, schema_name, category) ==
    /\ schema_node_rendered(connection_id, schema_name)
    /\ category_shown(connections, search_text, connection_id, schema_name,
                      category)

table_node_rendered(connection_id, schema_name, table) ==
    /\ object_category_rendered(connection_id, schema_name, Tables)
    /\ contains_key(connections[connection_id].tables, schema_name)
    /\ \E i \in 1..Len(connections[connection_id].tables[schema_name]) :
           connections[connection_id].tables[schema_name][i] = table
    /\ matches_search(table)

\* render_objects_in_category draws the leaf of a loaded object of category K
object_node_rendered(connection_id, schema_name, category, name) ==
    /\ object_category_rendered(connection_id, schema_name, category)
    /\ LET cache == category_cache(connections[connection_id], category)
       IN /\ contains_key(cache, schema_name)
          /\ \E i \in 1..Len(cache[schema_name]) : cache[schema_name][i] = name
    /\ matches_search(name)

\* the body of a table node draws the leaf of a loaded column
column_node_rendered(connection_id, schema_name, table, column) ==
    /\ table_node_rendered(connection_id, schema_name, table)
    /\ LET key == column_key(schema_name, table)
           columns == connections[connection_id].columns
       IN /\ contains_key(columns, key)
          /\ \E i \in 1..Len(columns[key]) : columns[key][i] = column

-----------------------------------------------------------------------------
(* Render passes in which one header is clicked *)

\* variant: a cached empty table list counts as not loaded
tables_not_cached_or_empty(connection_id, schema_name) ==
    /\ contains_key(connections, connection_id)
    /\ \/ ~contains_key(connections[connection_id].tables, schema_name)
       \/ connections[connection_id].tables[schema_name] = << >>

\* variant: a schema already waiting in the queue is not queued again
tables_not_cached_nor_queued(connection_id, schema_name) ==
    /\ contains_key(connections, connection_id)
    /\ ~contains_key(connections[connection_id].tables, schema_name)
    /\ \A i \in 1..Len(schemas_needing_tables) :
           schemas_needing_tables[i] # <<connection_id, schema_name>>

\* the Tables branch: the tables entry of the schema is not cached
tables_not_cached(connection_id, schema_name) ==
    /\ contains_key(connections, connection_id)
    /\ ~contains_key(connections[connection_id].tables, schema_name)

\* variant: columns are requested on the first expansion of the node only
columns_not_cached_first_time(connection_id, schema_name, table) ==
    /\ contains_key(connections, connection_id)
    /\ ~contains_key(connections[connection_id].columns,
                     column_key(schema_name, table))
    /\ ~contains_key(expanded_tables,
                     table_key(connection_id, schema_name, table))

\* the columns entry of the table is not cached
columns_not_cached(connection_id, schema_name, table) ==
    /\ contains_key(connections, connection_id)
    /\ ~contains_key(connections[connection_id].columns,
                     column_key(schema_name, table))

render_schema_node_clicked(connection_id, schema_name) ==
    /\ schema_node_rendered(connection_id, schema_name)
    /\ LET key == schema_key(connection_id, schema_name)
           new_state == ~get_or(expanded_schemas, key, FALSE)
       IN expanded_schemas' = insert(expanded_schemas, key, new_state)
    /\ UNCHANGED <<connections, saved_connections, expanded_connections,
                   expanded_saved_connections, expanded_object_categories,
                   expanded_tables, selected_item, search, is_loading, queues,
                   pending_action>>
    /\ Unit("render_schema_node_clicked", <<connection_id, schema_name>>)

render_object_category_clicked(connection_id, schema_name, category) ==
    /\ object_category_rendered(connection_id, schema_name, category)
    /\ LET key == category_key(connection_id, schema_name, category)
           new_state == ~get_or(expanded_object_categories, key, FALSE)
       IN /\ expanded_object_categories' =
                 insert(expanded_object_categories, key, new_state)
          /\ IF new_state /\ category = Tables
                /\ tables_not_cached(connection_id, schema_name)
             THEN /\ Len(schemas_needing_tables) < MaxQueue
                  /\ schemas_needing_tables' =
                         Append(schemas_needing_tables,
                                <<connection_id, schema_name>>)
             ELSE UNCHANGED schemas_needing_tables
          /\ IF new_state /\ category # Tables
             THEN /\ Len(schemas_needing_objects) < MaxQueue
                  /\ schemas_needing_objects' =
                         Append(schemas_needing_objects,
                                <<connection_id, schema_name, category>>)
             ELSE UNCHANGED schemas_needing_objects
    /\ UNCHANGED <<connections, saved_connections, expanded_connections,
                   expanded_saved_connections, expanded_schemas,
                   expanded_tables, selected_item, search, is_loading,
                   tables_needing_columns, pending_action>>
    /\ Unit("render_object_category_clicked", <<connection_id, schema_name, category>>)

render_table_node_clicked(connection_id, schema_name, table) ==
    /\ table_node_rendered(connection_id, schema_name, table)
    /\ LET key == table_key(connection_id, schema_name, table)
           new_state == ~get_or(expanded_tables, key, FALSE)
       IN /\ expanded_tables' = insert(expanded_tables, key, new_state)
          /\ IF new_state
                /\ columns_not_cached(connection_id, schema_name, table)
             THEN /\ Len(tables_needing_columns) < MaxQueue
                  /\ tables_needing_columns' =
                         Append(tables_needing_columns,
                                <<connection_id, schema_name, table>>)
             ELSE UNCHANGED tables_needing_columns
    /\ UNCHANGED <<connections, saved_connections, expanded_connections,
                   expanded_saved_connections, expanded_schemas,
                   expanded_object_categories, selected_item, search,
                   is_loading, schemas_needing_tables,
                   schemas_needing_objects, pending_action>>
    /\ Unit("render_table_node_clicked", <<connection_id, schema_name, table>>)

\* the header of an active connection is clicked with the secondary button:
\* the node becomes the selected item
render_connection_node_secondary_clicked(connection_id) ==
    /\ connection_node_rendered(connection_id)
    /\ selected_item' = Some([item |-> "Connection",
                              connection_id |-> connection_id])
    /\ UNCHANGED <<connections, saved_connections, expansion, search,
                   is_loading, queues, pending_action>>
    /\ Unit("render_connection_node_secondary_clicked", <<connection_id>>)

\* the header of an active connection that is not a saved one is clicked
render_connection_node_clicked(connection_id) ==
    /\ connection_node_rendered(connection_id)
    /\ expanded_connections' =
           insert(expanded_connections, connection_id,
                  ~get_or(expanded_connections, connection_id, FALSE))
    /\ UNCHANGED <<connections, saved_connections, expanded_saved_connections,
                   expanded_schemas, expanded_object_categories,
                   expanded_tables, selected_item, search, is_loading, queues,
                   pending_action>>
    /\ Unit("render_connection_node_clicked", <<connection_id>>)

\* HashMap::insert(key, true) for every key of a set
insert_all_true(m, keys) ==
    [k \in (DOMAIN m) \cup keys |-> IF k \in keys THEN TRUE ELSE m[k]]

\* the toolbar's Expand All button
expand_all ==
    /\ expanded_connections' =
           insert_all_true(expanded_connections, DOMAIN connections)
    /\ expanded_schemas' =
           insert_all_true(expanded_schemas,
               UNION {{schema_key(c, connections[c].schemas[i]) :
                          i \in 1..Len(connections[c].schemas)} :
                      c \in DOMAIN connections})
    /\ expanded_tables' =
           insert_all_true(expanded_tables,
               UNION {UNION {{table_key(c, sch, connections[c].tables[sch][i]) :
                                 i \in 1..Len(connections[c].tables[sch])} :
                             sch \in DOMAIN connections[c].tables} :
                      c \in DOMAIN connections})
    /\ UNCHANGED <<connections, saved_connections, expanded_saved_connections,
                   expanded_object_categories, selected_item, search,
                   is_loading, queues, pending_action>>
    /\ Unit("expand_all", << >>)

\* variant: Collapse All also drops the waiting fetch-needs
collapse_all_and_requests ==
    /\ expanded_connections' = EmptyMap
    /\ expanded_schemas' = EmptyMap
    /\ expanded_tables' = EmptyMap
    /\ schemas_needing_tables' = << >>
    /\ schemas_needing_objects' = << >>
    /\ tables_needing_columns' = << >>
    /\ UNCHANGED <<connections, saved_connections, expanded_saved_connections,
                   expanded_object_categories, selected_item, search,
                   is_loading, pending_action>>
    /\ Unit("collapse_all", << >>)

\* the toolbar's Collapse All button
collapse_all ==
    /\ expanded_connections' = EmptyMap
    /\ expanded_schemas' = EmptyMap
    /\ expanded_tables' = EmptyMap
    /\ UNCHANGED <<connections, saved_connections, expanded_saved_connections,
                   expanded_object_categories, selected_item, search,
                   is_loading, queues, pending_action>>
    /\ Unit("collapse_all", << >>)

\* the toolbar's Refresh button
refresh_clicked ==
    /\ is_loading' = TRUE
    /\ UNCHANGED <<connections, saved_connections, expansion, selected_item,
                   search, queues, pending_action>>
    /\ Unit("refresh_clicked", <<>>)

-----------------------------------------------------------------------------
(* The saved-connection node and the pending action *)

Connect == "Connect"
Edit == "Edit"
Duplicate == "Duplicate"
Delete == "Delete"
CopyUrl == "CopyUrl"
ConnectionAction == {Connect, Edit, Duplicate, Delete, CopyUrl}

\* variant: a waiting action is kept and the new one is dropped
write_pending_action_if_empty(action, connection_id) ==
    /\ write_count < MaxWrites
    /\ pending_action' = IF pending_action = None
                         THEN Some(<<action, connection_id>>)
                         ELSE pending_action
    /\ write_count' = write_count + 1
    /\ slot_write' = IF pending_action = None THEN write_count + 1
                     ELSE slot_write
    /\ UNCHANGED <<delivered, overwritten>>

\* self.pending_action = Some((action, saved_connection.id.clone()))
write_pending_action(action, connection_id) ==
    /\ write_count < MaxWrites
    /\ pending_action' = Some(<<action, connection_id>>)
    /\ write_count' = write_count + 1
    /\ slot_write' = write_count + 1
    /\ overwritten' = IF pending_action # None
                      THEN overwritten \cup {slot_write} ELSE overwritten
    /\ UNCHANGED delivered

\* the header of a saved-connection node is clicked: expansion and selection
render_saved_connection_node_clicked(id) ==
    /\ saved_connection_node_rendered(id)
    /\ expanded_saved_connections' =
           insert(expanded_saved_connections, id,
                  ~get_or(expanded_saved_connections, id, FALSE))
    /\ selected_item' = Some([item |-> "SavedConnection", connection_id |-> id])
    /\ UNCHANGED <<connections, saved_connections, expanded_connections,
                   expanded_schemas, expanded_object_categories,
                   expanded_tables, search, is_loading, queues,
                   pending_action>>
    /\ Unit("render_saved_connection_node_clicked", <<id>>)

\* the header is double-clicked: the click's effects, and Connect when the
\* connection has no node
render_saved_connection_node_double_clicked(id) ==
    /\ saved_connection_node_rendered(id)
    /\ expanded_saved_connections' =
           insert(expanded_saved_connections, id,
                  ~get_or(expanded_saved_connections, id, FALSE))
    /\ selected_item' = Some([item |-> "SavedConnection", connection_id |-> id])
    /\ IF ~contains_key(connections, id)
       THEN write_pending_action(Connect, id)
       ELSE UNCHANGED <<pending_action, history>>
    /\ Call("render_saved_connection_node_double_clicked", <<id>>, << >>)
    /\ UNCHANGED <<connections, saved_connections, expanded_connections,
                   expanded_schemas, expanded_object_categories,
                   expanded_tables, search, is_loading, queues>>

\* the Connect button in the body of a saved connection that has no node
render_saved_connection_node_connect_clicked(id) ==
    /\ saved_connection_node_rendered(id)
    /\ ~contains_key(connections, id)
    /\ write_pending_action(Connect, id)
    /\ Call("render_saved_connection_node_connect_clicked", <<id>>, << >>)
    /\ UNCHANGED <<connections, saved_connections, expansion, selected_item,
                   search, is_loading, queues>>

\* an entry of the context menu of a saved-connection node is clicked
render_saved_connection_node_menu_clicked(id, action) ==
    /\ saved_connection_node_rendered(id)
    /\ write_pending_action(action, id)
    /\ Call("render_saved_connection_node_menu_clicked", <<id, action>>, << >>)
    /\ UNCHANGED <<connections, saved_connections, expansion, selected_item,
                   search, is_loading, queues>>

-----------------------------------------------------------------------------
(* The search bar.  last_call.args holds the text the field held before.     *)

search_toggle_clicked ==
    /\ show_search' = ~show_search
    /\ search_text' = IF ~show_search' THEN "" ELSE search_text
    /\ UNCHANGED <<connections, saved_connections, expansion, selected_item,
                   is_loading, queues, pending_action>>
    /\ Unit("search_toggle_clicked", <<search_text>>)

search_text_edited(text) ==
    /\ show_search
    /\ search_text' = text
    /\ UNCHANGED <<connections, saved_connections, expansion, selected_item,
                   show_search, is_loading, queues, pending_action>>
    /\ Unit("search_text_edited", <<search_text, text>>)

search_clear_clicked ==
    /\ show_search
    /\ search_text' = ""
    /\ UNCHANGED <<connections, saved_connections, expansion, selected_item,
                   show_search, is_loading, queues, pending_action>>
    /\ Unit("search_clear_clicked", <<search_text>>)

-----------------------------------------------------------------------------
(* The controller: RBeaverApp::update and what it calls.  One frame is the  *)
(* render pass of the tree (with at most one pointer event), then           *)
(* handle_tree_expansion_requests, then the rest of update.  A Result of    *)
(* the executor is an Option: None is Err.                                  *)

\* the setter's insert on an explicit node map
cache_insert(conns, connection_id, field, key, value) ==
    IF contains_key(conns, connection_id)
    THEN [conns EXCEPT ![connection_id][field] = insert(@, key, value)]
    ELSE conns

\* the cache field the setter of a drained category writes
category_field(category) ==
    CASE category = Views -> "views"
      [] category = Functions -> "functions"
      [] category = Triggers -> "triggers"
      [] category = Sequences -> "sequences"
      [] category = Indexes -> "indexes"

\* variant: a failed fetch is cached as the empty list
fetch_result_cached_on_error(st, item, field, key, what, outcome) ==
    IF item[1] \in app_connections
    THEN IF outcome # None
         THEN [st EXCEPT !.conns = cache_insert(st.conns, item[1], field, key,
                                                outcome[1])]
         ELSE [conns |-> cache_insert(st.conns, item[1], field, key, << >>),
               err |-> Some(<<what, item>>)]
    ELSE st

\* one iteration of a loop of handle_tree_expansion_requests: the controller
\* holds the connection, blocks on the executor and calls the setter on Ok
\* or sets last_error on Err
fetch_result(st, item, field, key, what, outcome) ==
    IF item[1] \in app_connections
    THEN IF outcome # None
         THEN [st EXCEPT !.conns = cache_insert(st.conns, item[1], field, key,
                                                outcome[1])]
         ELSE [st EXCEPT !.err = Some(<<what, item>>)]
    ELSE st

RECURSIVE load_tables(_, _, _, _)
load_tables(st, items, outcomes, i) ==
    IF i > Len(items) THEN st
    ELSE load_tables(fetch_result(st, items[i], "tables", items[i][2],
                                  "Failed to load tables", outcomes[i]),
                     items, outcomes, i + 1)

\* variant: the column list is stored under the table name alone
RECURSIVE load_columns_by_table_name(_, _, _, _)
load_columns_by_table_name(st, items, outcomes, i) ==
    IF i > Len(items) THEN st
    ELSE load_columns_by_table_name(
             fetch_result(st, items[i], "columns", items[i][3],
                          "Failed to load columns", outcomes[i]),
             items, outcomes, i + 1)

RECURSIVE load_columns(_, _, _, _)
load_columns(st, items, outcomes, i) ==
    IF i > Len(items) THEN st
    ELSE load_columns(fetch_result(st, items[i], "columns",
                                   column_key(items[i][2], items[i][3]),
                                   "Failed to load columns", outcomes[i]),
                      items, outcomes, i + 1)

RECURSIVE load_objects(_, _, _, _)
load_objects(st, items, outcomes, i) ==
    IF i > Len(items) THEN st
    ELSE load_objects(IF items[i][3] = Tables THEN st
                      ELSE fetch_result(st, items[i],
                                        category_field(items[i][3]),
                                        items[i][2], "Failed to load objects",
                                        outcomes[i]),
                      items, outcomes, i + 1)

\* variant: the category requests are never drained
handle_tree_expansion_requests_no_objects(tables_out, columns_out, objects_out) ==
    LET st0 == [conns |-> connections, err |-> last_error]
        st1 == load_tables(st0, schemas_needing_tables, tables_out, 1)
        st2 == load_columns(st1, tables_needing_columns, columns_out, 1)
    IN /\ connections' = st2.conns
       /\ last_error' = st2.err
       /\ schemas_needing_tables' = << >>
       /\ tables_needing_columns' = << >>
       /\ last_call' = [op |-> "handle_tree_expansion_requests",
                        args |-> <<tables_out, columns_out, objects_out,
                                   last_call.op>>,
                        ret |-> <<schemas_needing_tables,
                                  tables_needing_columns, << >> >>]
       /\ UNCHANGED <<saved_connections, expansion, selected_item, search,
                      is_loading, schemas_needing_objects, pending_action,
                      history, app_connections, pending_connection_deletion,
                      settings_connections, confirmation_dialog,
                      app_saved_connections, active_connection>>

\* the three drains and their loops; last_call.args ends with the event of
\* the render pass of this frame and last_call.ret holds what was drained
handle_tree_expansion_requests(tables_out, columns_out, objects_out) ==
    LET st0 == [conns |-> connections, err |-> last_error]
        st1 == load_tables(st0, schemas_needing_tables, tables_out, 1)
        st2 == load_columns(st1, tables_needing_columns, columns_out, 1)
        st3 == load_objects(st2, schemas_needing_objects, objects_out, 1)
    IN /\ connections' = st3.conns
       /\ last_error' = st3.err
       /\ schemas_needing_tables' = << >>
       /\ tables_needing_columns' = << >>
       /\ schemas_needing_objects' = << >>
       /\ last_call' = [op |-> "handle_tree_expansion_requests",
                        args |-> <<tables_out, columns_out, objects_out,
                                   last_call.op>>,
                        ret |-> <<schemas_needing_tables,
                                  tables_needing_columns,
                                  schemas_needing_objects>>]
       /\ UNCHANGED <<saved_connections, expansion, selected_item, search,
                      is_loading, pending_action, history, app_connections,
                      pending_connection_deletion, settings_connections,
                      confirmation_dialog, app_saved_connections,
                      active_connection>>

\* the saved record the controller finds for an id
saved_params(id) ==
    app_saved_connections[CHOOSE i \in 1..Len(app_saved_connections) :
                              app_saved_connections[i].id = id]

\* variant: the node is added and loaded but never marked connected
connected_node_unmarked(id, name, schemas_out, counts_out) ==
    LET fresh == ConnectionNode_new(id, name)
    IN IF schemas_out = None THEN fresh
       ELSE [fresh EXCEPT !.schemas = schemas_out[1]]

\* the node attempt_connection leaves in the tree after a successful connect:
\* add_connection, set_connection_status(true), then load_database_structure
\* (set_object_counts for every schema whose count query succeeds, then
\* set_schemas)
connected_node(id, name, schemas_out, counts_out) ==
    LET fresh == [ConnectionNode_new(id, name) EXCEPT !.is_connected = TRUE]
        list == schemas_out[1]
        counted_at(sch) == {i \in 1..Len(list) :
                               list[i] = sch /\ counts_out[i] # None}
        counted_schemas == {list[i] : i \in {j \in 1..Len(list) :
                                                counts_out[j] # None}}
    IN IF schemas_out = None THEN fresh
       ELSE [fresh EXCEPT
               !.schemas = list,
               !.object_counts =
                   [sch \in counted_schemas |->
                       counts_out[CHOOSE i \in counted_at(sch) :
                                     \A j \in counted_at(sch) : j <= i][1]]]

\* Vec::retain(|c| c.id != id) on the saved list (settings.remove_connection)
RECURSIVE without_id(_, _)
without_id(list, id) ==
    IF list = << >> THEN << >>
    ELSE IF Head(list).id = id THEN without_id(Tail(list), id)
         ELSE <<Head(list)>> \o without_id(Tail(list), id)

\* HashMap::retain(|id, _| connection_ids.contains(id))
retain_ids(m, ids) == [x \in (DOMAIN m) \cap ids |-> m[x]]

-----------------------------------------------------------------------------
(* The configuration: ConnectionParams and AppSettings *)

PostgreSQL == "PostgreSQL"
SQLite == "SQLite"

\* impl Default for ConnectionParams, with the value of Uuid::new_v4() as id
ConnectionParams_default(id) ==
    [id |-> id,
     name |-> "New Connection",
     database_type |-> PostgreSQL,
     host |-> "localhost",
     port |-> 5432,
     database |-> "postgres",
     username |-> "postgres",
     password |-> "",
     ssl_mode |-> "Prefer",
     connection_timeout |-> Some(30),
     additional_params |-> EmptyMap]

\* Result<T, String>
Ok(v) == [ok |-> TRUE, value |-> v]
Err(e) == [ok |-> FALSE, error |-> e]

\* str::trim().is_empty(): the string holds nothing but blanks
RECURSIVE trim_is_empty(_)
trim_is_empty(str) ==
    IF Len(str) = 0 THEN TRUE
    ELSE SubSeq(str, 1, 1) = " " /\ trim_is_empty(SubSeq(str, 2, Len(str)))

\* ConnectionParams::validate
validate(c) ==
    IF trim_is_empty(c.name) THEN Err("Connection name cannot be empty")
    ELSE IF trim_is_empty(c.host) THEN Err("Host cannot be empty")
    ELSE IF trim_is_empty(c.database) /\ c.database_type # SQLite
    THEN Err("Database name cannot be empty")
    ELSE IF trim_is_empty(c.username) /\ c.database_type # SQLite
    THEN Err("Username cannot be empty")
    ELSE IF c.port = 0 /\ c.database_type # SQLite
    THEN Err("Port must be greater than 0")
    ELSE Ok(<< >>)

ids_of(list) == {list[i].id : i \in 1..Len(list)}
names_of(list) == {list[i].name : i \in 1..Len(list)}

\* variant: a name is never taken to be in use
name_used_by_other_never(list, name, id) == FALSE

\* connections.iter().any(|c| c.name == name && c.id != id)
name_used_by_other(list, name, id) ==
    \E i \in 1..Len(list) : list[i].name = name /\ list[i].id # id

\* connections.iter().position(|c| c.id == id), 0 for None
position(list, id) ==
    IF \E i \in 1..Len(list) : list[i].id = id
    THEN CHOOSE i \in 1..Len(list) :
             /\ list[i].id = id
             /\ \A j \in 1..(i - 1) : list[j].id # id
    ELSE 0

\* Vec::remove(index)
remove_at(list, i) == SubSeq(list, 1, i - 1) \o SubSeq(list, i + 1, Len(list))

\* variant: the new record is pushed without removing the one with its id
settings_add_connection_push(list, connection) ==
    IF ~validate(connection).ok
    THEN [list |-> list, result |-> validate(connection)]
    ELSE IF name_used_by_other(list, connection.name, connection.id)
    THEN [list |-> list,
          result |-> Err("A connection with the name already exists")]
    ELSE [list |-> Append(list, connection), result |-> Ok(<< >>)]

\* AppSettings::add_connection on a list: the list afterwards and the result
settings_add_connection(list, connection) ==
    IF ~validate(connection).ok
    THEN [list |-> list, result |-> validate(connection)]
    ELSE IF name_used_by_other(list, connection.name, connection.id)
    THEN [list |-> list,
          result |-> Err("A connection with the name already exists")]
    ELSE [list |-> Append(without_id(list, connection.id), connection),
          result |-> Ok(<< >>)]

\* variant: the record is removed before the id is looked up, and a missing
\* id is reported as success
settings_remove_connection_lenient(list, id) ==
    IF position(list, id) = 0
    THEN [list |-> list, result |-> Ok(<< >>)]
    ELSE [list |-> remove_at(list, position(list, id)),
          result |-> Ok(list[position(list, id)])]

settings_remove_connection(list, id) ==
    IF position(list, id) = 0
    THEN [list |-> list, result |-> Err("Connection not found")]
    ELSE [list |-> remove_at(list, position(list, id)),
          result |-> Ok(list[position(list, id)])]

settings_update_connection(list, connection) ==
    IF ~validate(connection).ok
    THEN [list |-> list, result |-> validate(connection)]
    ELSE IF name_used_by_other(list, connection.name, connection.id)
    THEN [list |-> list,
          result |-> Err("A connection with the name already exists")]
    ELSE IF position(list, connection.id) = 0
    THEN [list |-> list, result |-> Err("Connection not found")]
    ELSE [list |-> [list EXCEPT ![position(list, connection.id)] = connection],
          result |-> Ok(<< >>)]

\* ConnectionParams::duplicate; new_id is the value of Uuid::new_v4()
ConnectionParams_duplicate(c, new_name, new_id) ==
    [c EXCEPT !.id = new_id,
              !.name = IF new_name = None THEN c.name \o " (Copy)"
                       ELSE new_name[1]]

\* u32 to decimal digits, as format!("{}", counter)
RECURSIVE to_string(_)
to_string(n) ==
    LET digit(d) == SubSeq("0123456789", d + 1, d + 1)
    IN IF n < 10 THEN digit(n) ELSE to_string(n \div 10) \o digit(n % 10)

\* variant: the suffix is added once, whether or not the result is free
unique_name_one_try(list, base, name, counter) ==
    IF \E i \in 1..Len(list) : list[i].name = name
    THEN base \o " (" \o to_string(counter) \o ")"
    ELSE name

\* the loop of duplicate_connection that makes the name unique
RECURSIVE unique_name(_, _, _, _)
unique_name(list, base, name, counter) ==
    IF \E i \in 1..Len(list) : list[i].name = name
    THEN unique_name(list, base,
                     base \o " (" \o to_string(counter) \o ")", counter + 1)
    ELSE name

settings_duplicate_connection(list, id, new_name, new_id) ==
    IF position(list, id) = 0
    THEN [list |-> list, result |-> Err("Connection not found")]
    ELSE LET duplicated ==
                 ConnectionParams_duplicate(list[position(list, id)],
                                            new_name, new_id)
             named == [duplicated EXCEPT
                          !.name = unique_name(list, duplicated.name,
                                               duplicated.name, 1)]
         IN [list |-> Append(list, named), result |-> Ok(named)]

\* a method of AppSettings called on the settings of the application
AppSettings_call(op, args, outcome) ==
    /\ settings_connections' = outcome.list
    /\ last_call' = [op |-> op, args |-> args, ret |-> outcome.result]
    /\ UNCHANGED <<tree, history, app_connections, last_error,
                   pending_connection_deletion, confirmation_dialog,
                   app_saved_connections, active_connection>>

AppSettings_add_connection(connection) ==
    AppSettings_call("AppSettings::add_connection", <<connection>>,
                     settings_add_connection(settings_connections, connection))

AppSettings_remove_connection(id) ==
    AppSettings_call("AppSettings::remove_connection", <<id>>,
                     settings_remove_connection(settings_connections, id))

AppSettings_update_connection(connection) ==
    AppSettings_call("AppSettings::update_connection", <<connection>>,
                     settings_update_connection(settings_connections,
                                                connection))

AppSettings_duplicate_connection(id, new_name, new_id) ==
    AppSettings_call("AppSettings::duplicate_connection",
                     <<id, new_name, new_id>>,
                     settings_duplicate_connection(settings_connections, id,
                                                   new_name, new_id))

-----------------------------------------------------------------------------
(* The confirmation dialog *)

show_delete_confirmation(dialog, item_name) ==
    [show |-> TRUE,
     title |-> "Delete Connection",
     message |-> "Are you sure you want to delete the connection '"
                 \o item_name \o "'?\n\nThis action cannot be undone.",
     confirm_text |-> "Delete",
     cancel_text |-> "Cancel",
     confirmed |-> FALSE,
     cancelled |-> FALSE]

show_confirmation(dialog, title, message, confirm_text) ==
    [show |-> TRUE,
     title |-> title,
     message |-> message,
     confirm_text |-> confirm_text,
     cancel_text |-> "Cancel",
     confirmed |-> FALSE,
     cancelled |-> FALSE]

DialogButtons == {"confirm", "cancel"}

\* ConfirmationDialog::render in a frame in which the button is clicked
\* ("none": no button); a hidden dialog draws no button
dialog_render(dialog, button) ==
    IF ~dialog.show THEN dialog
    ELSE IF button = "confirm"
    THEN [dialog EXCEPT !.confirmed = TRUE, !.show = FALSE]
    ELSE IF button = "cancel"
    THEN [dialog EXCEPT !.cancelled = TRUE, !.show = FALSE]
    ELSE dialog

\* variant: the result is read and left in place
take_confirmed_peek(dialog) ==
    [dialog |-> dialog, result |-> dialog.confirmed]

\* ConfirmationDialog::take_confirmed: the dialog afterwards and the result
take_confirmed(dialog) ==
    [dialog |-> [dialog EXCEPT !.confirmed = FALSE],
     result |-> dialog.confirmed]

take_cancelled(dialog) ==
    [dialog |-> [dialog EXCEPT !.cancelled = FALSE],
     result |-> dialog.cancelled]

close(dialog) ==
    [dialog EXCEPT !.show = FALSE, !.confirmed = FALSE, !.cancelled = FALSE]

\* a method of ConfirmationDialog called on the dialog of the application
ConfirmationDialog_call(op, args, dialog, ret) ==
    /\ confirmation_dialog' = dialog
    /\ last_call' = [op |-> op, args |-> args, ret |-> ret]
    /\ UNCHANGED <<tree, history, app_connections, last_error,
                   pending_connection_deletion, settings_connections,
                   app_saved_connections, active_connection>>

ConfirmationDialog_show_delete_confirmation(item_name) ==
    ConfirmationDialog_call(
        "ConfirmationDialog::show_delete_confirmation", <<item_name>>,
        show_delete_confirmation(confirmation_dialog, item_name), << >>)

ConfirmationDialog_show_confirmation(title, message, confirm_text) ==
    ConfirmationDialog_call(
        "ConfirmationDialog::show_confirmation",
        <<title, message, confirm_text>>,
        show_confirmation(confirmation_dialog, title, message, confirm_text),
        << >>)

ConfirmationDialog_render(button) ==
    /\ button \in DialogButtons => confirmation_dialog.show
    /\ ConfirmationDialog_call(
           "ConfirmationDialog::render", <<button>>,
           dialog_render(confirmation_dialog, button), << >>)

ConfirmationDialog_take_confirmed ==
    ConfirmationDialog_call(
        "ConfirmationDialog::take_confirmed", << >>,
        take_confirmed(confirmation_dialog).dialog,
        take_confirmed(confirmation_dialog).result)

ConfirmationDialog_take_cancelled ==
    ConfirmationDialog_call(
        "ConfirmationDialog::take_cancelled", << >>,
        take_cancelled(confirmation_dialog).dialog,
        take_cancelled(confirmation_dialog).result)

ConfirmationDialog_close ==
    ConfirmationDialog_call("ConfirmationDialog::close", << >>,
                            close(confirmation_dialog), << >>)

FrameActions == {Connect, Edit, Delete}
DialogEvents == {"none", "confirm", "cancel", "error_ok"}

\* RBeaverApp::default: the settings are loaded and their connections are
\* handed to the tree.  saved_connections stands for the list of the tree
\* and for the copy the controller keeps of it.
RBeaverApp_default(loaded) ==
    /\ settings_connections' = loaded
    /\ app_saved_connections' = loaded
    /\ saved_connections' = loaded
    /\ last_call' = [op |-> "RBeaverApp::default", args |-> <<loaded>>,
                     ret |-> << >>]
    /\ UNCHANGED <<connections, expansion, selected_item, search, is_loading,
                   queues, pending_action, history, app_connections,
                   last_error, pending_connection_deletion,
                   confirmation_dialog, active_connection>>

\* variant: the controller keeps the connection that is disconnected
open_after_disconnect_kept(open, connection_id) == open

\* disconnect_database: self.connections.remove(connection_id)
open_after_disconnect(open, connection_id) == open \ {connection_id}

\* variant: the active connection survives its disconnect
active_after_disconnect_kept(active, connection_id) == active

\* disconnect_database: active_connection is cleared when it is the
\* connection that is disconnected
active_after_disconnect(active, connection_id) ==
    IF active = Some(connection_id) THEN None ELSE active

\* variant: the pending deletion is carried out whichever button answers
\* the dialog
delete_on_any_answer(action, dialog) ==
    \/ take_confirmed(dialog).result
    \/ take_cancelled(take_confirmed(dialog).dialog).result

\* variant: the connection is added to both lists whether or not the
\* controller already holds its id
save_connection_always(settings, saved, params) ==
    LET add == settings_add_connection(settings, params)
    IN IF add.result.ok
       THEN [settings |-> add.list, saved |-> Append(saved, params),
             added |-> TRUE, failed |-> FALSE]
       ELSE [settings |-> settings, saved |-> saved,
             added |-> FALSE, failed |-> TRUE]

\* save_connection_if_new: a connection whose id the controller's list does
\* not hold is added to the settings and pushed onto the controller's list
save_connection_if_new(settings, saved, params) ==
    LET add == settings_add_connection(settings, params)
    IN IF params.id \in ids_of(saved)
       THEN [settings |-> settings, saved |-> saved,
             added |-> FALSE, failed |-> FALSE]
       ELSE IF add.result.ok
       THEN [settings |-> add.list, saved |-> Append(saved, params),
             added |-> TRUE, failed |-> FALSE]
       ELSE [settings |-> settings, saved |-> saved,
             added |-> FALSE, failed |-> TRUE]

\* variant: a drained Delete removes the connection at once, without
\* waiting for the confirmation
delete_without_confirmation(action, dialog) == action = Delete

\* the confirmation that delete_saved_connection waits for: the dialog
\* reports confirmed in this frame
delete_confirmed(action, dialog) == take_confirmed(dialog).result

\* The rest of update after render_main_layout: the pending action is taken
\* and dispatched, then the confirmation dialog and the error dialog are
\* served.  dialog is the dialog button clicked in this frame, if any;
\* connect_ok, schemas_out and counts_out are the answers of the executor,
\* save_ok that of settings.save(), clipboard_ok that of the clipboard and
\* new_id the value of Uuid::new_v4().  The connection dialog that Edit
\* opens and the clipboard message of the status bar are not part of the
\* model.
update(connect_ok, schemas_out, counts_out, dialog, save_ok, clipboard_ok, new_id) ==
    LET taken == pending_action
        action == IF taken = None THEN "None" ELSE taken[1][1]
        id == IF taken = None THEN "" ELSE taken[1][2]
        saved == id \in ids_of(app_saved_connections)
        connects == action = Connect /\ saved /\ connect_ok
        if_new == save_connection_if_new(settings_connections,
                                         app_saved_connections,
                                         saved_params(id))
        duplicate ==
            settings_duplicate_connection(settings_connections, id, None,
                                          new_id)
        duplicates == action = Duplicate /\ duplicate.result.ok
        settings1 == IF duplicates THEN duplicate.list
                     ELSE IF connects THEN if_new.settings
                     ELSE settings_connections
        app_saved1 == IF duplicates THEN duplicate.list
                      ELSE IF connects THEN if_new.saved
                      ELSE app_saved_connections
        asks == action = Delete /\ saved
        dialog1 == IF asks
                   THEN show_delete_confirmation(confirmation_dialog,
                                                 saved_params(id).name)
                   ELSE confirmation_dialog
        pending1 == IF asks THEN Some(id) ELSE pending_connection_deletion
        dialog2 == dialog_render(dialog1,
                                 IF dialog \in DialogButtons THEN dialog
                                 ELSE "none")
        confirmed == delete_confirmed(action, dialog2)
        dialog3 == take_confirmed(dialog2).dialog
        cancelled == ~confirmed /\ take_cancelled(dialog3).result
        dialog4 == IF confirmed THEN dialog3
                   ELSE take_cancelled(dialog3).dialog
        deleted == IF confirmed THEN pending1 ELSE None
        disconnects == deleted # None /\ deleted[1] \in app_connections
        removal == settings_remove_connection(settings1, deleted[1])
        removes == deleted # None /\ removal.result.ok
        error1 ==
            IF action = Connect /\ saved /\ ~connect_ok
            THEN Some(<<"Connection failed", id>>)
            ELSE IF connects /\ schemas_out = None
            THEN Some(<<"Failed to load schemas", id>>)
            ELSE IF connects /\ if_new.failed
            THEN Some(<<"Failed to add connection", id>>)
            ELSE IF connects /\ if_new.added /\ ~save_ok
            THEN Some(<<"Failed to save settings", id>>)
            ELSE IF action = Duplicate /\ ~duplicate.result.ok
            THEN Some(<<"Failed to duplicate connection", id>>)
            ELSE IF duplicates /\ ~save_ok
            THEN Some(<<"Failed to save settings", id>>)
            ELSE IF action = CopyUrl /\ saved /\ ~clipboard_ok
            THEN Some(<<"Failed to copy to clipboard", id>>)
            ELSE last_error
        error2 ==
            IF deleted # None /\ ~removal.result.ok
            THEN Some(<<"Failed to delete connection", deleted[1]>>)
            ELSE IF removes /\ ~save_ok
            THEN Some(<<"Failed to save settings", deleted[1]>>)
            ELSE error1
    IN /\ dialog \in DialogButtons => dialog1.show /\ taken = None
       /\ dialog = "error_ok" => error2 # None /\ taken = None
       /\ pending_action' = None
       /\ delivered' = IF taken # None THEN Append(delivered, slot_write)
                       ELSE delivered
       /\ slot_write' = 0
       /\ app_connections' =
              LET open == IF connects THEN app_connections \cup {id}
                          ELSE app_connections
              IN IF disconnects THEN open_after_disconnect(open, deleted[1])
                 ELSE open
       /\ connections' =
              LET connected ==
                      IF connects
                      THEN insert(connections, id,
                                  connected_node(id, saved_params(id).name,
                                                 schemas_out, counts_out))
                      ELSE connections
              IN IF disconnects THEN remove(connected, deleted[1])
                 ELSE connected
       /\ is_loading' = IF connects THEN FALSE ELSE is_loading
       /\ last_error' = IF dialog = "error_ok" THEN None ELSE error2
       /\ pending_connection_deletion' =
              IF confirmed \/ cancelled THEN None ELSE pending1
       /\ confirmation_dialog' = dialog4
       /\ settings_connections' = IF removes THEN removal.list ELSE settings1
       /\ app_saved_connections' =
              IF removes THEN removal.list ELSE app_saved1
       /\ active_connection' =
              LET active == IF connects THEN Some(id) ELSE active_connection
              IN IF disconnects
                 THEN active_after_disconnect(active, deleted[1])
                 ELSE active
       /\ saved_connections' =
              IF removes THEN removal.list
              ELSE IF duplicates THEN settings1
              ELSE saved_connections
       /\ expanded_saved_connections' =
              IF removes
              THEN retain_ids(expanded_saved_connections,
                              ids_of(removal.list))
              ELSE IF duplicates
              THEN retain_ids(expanded_saved_connections, ids_of(settings1))
              ELSE expanded_saved_connections
       /\ expanded_connections' =
              IF disconnects THEN remove(expanded_connections, deleted[1])
              ELSE expanded_connections
       /\ expanded_schemas' =
              IF disconnects
              THEN retain_not_prefixed(expanded_schemas, deleted[1] \o ".")
              ELSE expanded_schemas
       /\ expanded_tables' =
              IF disconnects
              THEN retain_not_prefixed(expanded_tables, deleted[1] \o ".")
              ELSE expanded_tables
       /\ last_call' = [op |-> "update",
                        args |-> <<connect_ok, schemas_out, counts_out, dialog,
                                   save_ok, clipboard_ok, new_id>>,
                        ret |-> taken]
       /\ UNCHANGED <<expanded_object_categories, selected_item, search,
                      queues, write_count, overwritten>>

\* the buttons of the connection dialog that reach the settings
DialogActions == {"SaveAndConnect", "SaveOnly", "UpdateConnection"}

\* update in a frame in which a button of the connection dialog is clicked:
\* no action is pending and neither the confirmation dialog nor the error
\* dialog receives the click.  params is what the dialog holds;
\* render_connection_dialog calls save_connection or update_connection,
\* and save_connection calls attempt_connection after a successful save.
update_connection_dialog(dialog_action, params, connect_ok, schemas_out, counts_out, save_ok) ==
    LET id == params.id
        saves == dialog_action \in {"SaveAndConnect", "SaveOnly"}
        outcome == IF saves
                   THEN settings_add_connection(settings_connections, params)
                   ELSE settings_update_connection(settings_connections,
                                                   params)
        stored == outcome.result.ok
        list1 == IF stored THEN outcome.list ELSE settings_connections
        saved1 == IF stored THEN outcome.list ELSE app_saved_connections
        attempts == dialog_action = "SaveAndConnect" /\ stored /\ save_ok
        connects == attempts /\ connect_ok
        if_new == save_connection_if_new(list1, saved1, params)
        dialog2 == dialog_render(confirmation_dialog, "none")
        error ==
            IF ~stored /\ saves
            THEN Some(<<"Failed to save connection", id>>)
            ELSE IF ~stored
            THEN Some(<<"Failed to update connection", id>>)
            ELSE IF ~save_ok
            THEN Some(<<"Failed to save settings", id>>)
            ELSE IF attempts /\ ~connect_ok
            THEN Some(<<"Connection failed", id>>)
            ELSE IF connects /\ schemas_out = None
            THEN Some(<<"Failed to load schemas", id>>)
            ELSE IF connects /\ if_new.failed
            THEN Some(<<"Failed to add connection", id>>)
            ELSE last_error
    IN /\ dialog_action \in DialogActions
       /\ pending_action = None
       /\ ~take_confirmed(dialog2).result
       /\ ~take_cancelled(dialog2).result
       /\ settings_connections' = IF connects THEN if_new.settings ELSE list1
       /\ app_saved_connections' = IF connects THEN if_new.saved ELSE saved1
       /\ saved_connections' = IF stored THEN list1 ELSE saved_connections
       /\ expanded_saved_connections' =
              IF stored
              THEN retain_ids(expanded_saved_connections, ids_of(list1))
              ELSE expanded_saved_connections
       /\ app_connections' =
              IF connects THEN app_connections \cup {id} ELSE app_connections
       /\ active_connection' =
              IF connects THEN Some(id) ELSE active_connection
       /\ connections' =
              IF connects
              THEN insert(connections, id,
                          connected_node(id, params.name, schemas_out,
                                         counts_out))
              ELSE connections
       /\ is_loading' = IF connects THEN FALSE ELSE is_loading
       /\ last_error' = error
       /\ confirmation_dialog' = take_cancelled(dialog2).dialog
       /\ last_call' = [op |-> "update_connection_dialog",
                        args |-> <<dialog_action, params, connect_ok,
                                   schemas_out, counts_out, save_ok>>,
                        ret |-> outcome.result]
       /\ UNCHANGED <<expanded_connections, expanded_schemas,
                      expanded_object_categories, expanded_tables,
                      selected_item, search, queues, pending_action, history,
                      pending_connection_deletion>>

\* a render pass in which no widget of the tree receives a pointer event
render_idle ==
    /\ UNCHANGED tree
    /\ Unit("render", << >>)

-----------------------------------------------------------------------------
(* Inputs of the model *)

ConnIds == {"c1"}
SchemaNames == {"public"}
TableNames == {"users"}
SchemaLists == {<<"public">>}
TableLists == {<< >>, <<"users">>}
ColumnLists == {<< >>, <<"id">>}
CountsWithTables == [ObjectCounts_default EXCEPT !.tables = 1]

-----------------------------------------------------------------------------
(* The tree driven through the table path: connections come and go, schema, *)
(* count, table and column results arrive, the schema node, the Tables      *)
(* category and the table nodes are clicked, and the queues are drained.    *)

Next ==
    \/ \E c \in ConnIds : add_connection(c, "Local")
    \/ \E c \in ConnIds : remove_connection(c)
    \/ \E c \in ConnIds, l \in SchemaLists : set_schemas(c, l)
    \/ \E c \in ConnIds, s \in SchemaNames :
           set_object_counts(c, s, CountsWithTables)
    \/ \E c \in ConnIds, s \in SchemaNames, l \in TableLists :
           set_tables(c, s, l)
    \/ \E c \in ConnIds, s \in SchemaNames, t \in TableNames,
          l \in ColumnLists : set_columns(c, s, t, l)
    \/ \E c \in ConnIds, s \in SchemaNames : render_schema_node_clicked(c, s)
    \/ \E c \in ConnIds, s \in SchemaNames :
           render_object_category_clicked(c, s, Tables)
    \/ \E c \in ConnIds, s \in SchemaNames, t \in TableNames :
           render_table_node_clicked(c, s, t)
    \/ get_schemas_needing_tables
    \/ get_schemas_needing_objects
    \/ get_tables_needing_columns
    \/ refresh_clicked

Spec == Init /\ [][Next]_vars

-----------------------------------------------------------------------------
(* The queues: every category and table of one schema can be clicked, and   *)
(* nothing but the table list ever arrives, so requests pile up in all      *)
(* three queues between drains.                                             *)

DrainCategories == {Tables, Views}
DrainTableNames == {"users", "orders"}
CountsAll ==
    [tables |-> 1, views |-> 1, materialized_views |-> 1, functions |-> 1,
     procedures |-> 1, triggers |-> 1, sequences |-> 1, indexes |-> 1]

NextDrain ==
    \/ \E c \in ConnIds : add_connection(c, "Local")
    \/ \E c \in ConnIds, l \in SchemaLists : set_schemas(c, l)
    \/ \E c \in ConnIds, s \in SchemaNames : set_object_counts(c, s, CountsAll)
    \/ \E c \in ConnIds, s \in SchemaNames :
           set_tables(c, s, <<"orders", "users">>)
    \/ \E c \in ConnIds, s \in SchemaNames, K \in DrainCategories :
           render_object_category_clicked(c, s, K)
    \/ \E c \in ConnIds, s \in SchemaNames, t \in DrainTableNames :
           render_table_node_clicked(c, s, t)
    \/ get_schemas_needing_tables
    \/ get_schemas_needing_objects
    \/ get_tables_needing_columns

SpecDrain == Init /\ [][NextDrain]_vars

-----------------------------------------------------------------------------
(* The other categories: Views, Functions, Triggers, Sequences and Indexes  *)
(* are clicked and their object lists arrive.  A behaviour works with at    *)
(* most MaxCategories of the five.                                          *)

ObjectLists == {<< >>, <<"Users_v">>}

\* the setter handle_tree_expansion_requests picks for a drained category
set_objects(connection_id, schema, category, objects) ==
    CASE category = Views -> set_views(connection_id, schema, objects)
      [] category = Functions -> set_functions(connection_id, schema, objects)
      [] category = Triggers -> set_triggers(connection_id, schema, objects)
      [] category = Sequences -> set_sequences(connection_id, schema, objects)
      [] category = Indexes -> set_indexes(connection_id, schema, objects)

category_in_use(category) ==
    \/ \E c \in ConnIds, s \in SchemaNames :
           \/ contains_key(expanded_object_categories,
                           category_key(c, s, category))
           \/ /\ contains_key(connections, c)
              /\ contains_key(category_cache(connections[c], category), s)
    \/ \E i \in 1..Len(schemas_needing_objects) :
           schemas_needing_objects[i][3] = category

within_focus(category) ==
    Cardinality({K \in OtherCategories : category_in_use(K)} \cup {category})
        <= MaxCategories

NextObjects ==
    \/ \E c \in ConnIds : add_connection(c, "Local")
    \/ \E c \in ConnIds : remove_connection(c)
    \/ \E c \in ConnIds, l \in SchemaLists : set_schemas(c, l)
    \/ \E c \in ConnIds, s \in SchemaNames : set_object_counts(c, s, CountsAll)
    \/ \E c \in ConnIds, s \in SchemaNames, K \in OtherCategories,
          l \in ObjectLists :
           within_focus(K) /\ set_objects(c, s, K, l)
    \/ \E c \in ConnIds, s \in SchemaNames, K \in OtherCategories :
           within_focus(K) /\ render_object_category_clicked(c, s, K)
    \/ get_schemas_needing_objects

SpecObjects == Init /\ [][NextObjects]_vars

-----------------------------------------------------------------------------
(* The setters: every cache setter is called for a connection that may or   *)
(* may not have a node, around an expanded Tables category with a queued    *)
(* fetch-need and a loading flag that Refresh sets.                         *)

NextSetters ==
    \/ \E c \in ConnIds : add_connection(c, "Local")
    \/ \E c \in ConnIds : remove_connection(c)
    \/ \E c \in ConnIds, l \in SchemaLists : set_schemas(c, l)
    \/ \E c \in ConnIds, s \in SchemaNames :
           set_object_counts(c, s, CountsWithTables)
    \/ \E c \in ConnIds, s \in SchemaNames : set_tables(c, s, <<"users">>)
    \/ \E c \in ConnIds, s \in SchemaNames, t \in TableNames :
           set_columns(c, s, t, <<"id">>)
    \/ \E c \in ConnIds, s \in SchemaNames : set_views(c, s, <<"Users_v">>)
    \/ \E c \in ConnIds, s \in SchemaNames : set_functions(c, s, <<"f">>)
    \/ \E c \in ConnIds, s \in SchemaNames : set_triggers(c, s, <<"tr">>)
    \/ \E c \in ConnIds, s \in SchemaNames : set_sequences(c, s, <<"sq">>)
    \/ \E c \in ConnIds, s \in SchemaNames : set_indexes(c, s, <<"ix">>)
    \/ \E c \in ConnIds, s \in SchemaNames :
           render_object_category_clicked(c, s, Tables)
    \/ refresh_clicked

SpecSetters == Init /\ [][NextSetters]_vars

-----------------------------------------------------------------------------
(* The pending action: saved connections are listed, their headers, Connect *)
(* buttons and context menus are clicked, a connection may get its node,    *)
(* and the controller takes the pending action.                             *)

SavedLists == {<<[id |-> "c1", name |-> "Local"]>>}
SavedIds == {"c1"}

NextAction ==
    \/ \E l \in SavedLists : set_saved_connections(l)
    \/ add_connection("c1", "Local")
    \/ \E id \in SavedIds : render_saved_connection_node_clicked(id)
    \/ \E id \in SavedIds : render_saved_connection_node_double_clicked(id)
    \/ \E id \in SavedIds : render_saved_connection_node_connect_clicked(id)
    \/ \E id \in SavedIds, a \in ConnectionAction :
           render_saved_connection_node_menu_clicked(id, a)
    \/ get_pending_action

SpecAction == Init /\ [][NextAction]_vars

-----------------------------------------------------------------------------
(* Category visibility: object counts of several shapes arrive for one      *)
(* schema, the table list and the object list of one other category arrive, *)
(* the Tables category is clicked and the search text is edited.            *)

MaxCount == 1
CountFields ==
    {"tables", "views", "materialized_views", "functions", "procedures",
     "triggers", "sequences", "indexes"}
\* no objects at all, objects of one kind only, objects of every kind
CountsInputs ==
    {ObjectCounts_default, [f \in CountFields |-> MaxCount]}
    \cup {[ObjectCounts_default EXCEPT ![f] = n] :
              f \in CountFields, n \in 1..MaxCount}
SearchTexts == {"us", "zz"}

\* no other category than this one has a flag, a cached list or a request
only_category_in_use(category) ==
    \A K \in OtherCategories \ {category} : ~category_in_use(K)

NextVisible ==
    \/ \E c \in ConnIds : add_connection(c, "Local")
    \/ \E c \in ConnIds, l \in SchemaLists : set_schemas(c, l)
    \/ \E c \in ConnIds, s \in SchemaNames, n \in CountsInputs :
           set_object_counts(c, s, n)
    \/ \E c \in ConnIds, s \in SchemaNames, l \in TableLists \ {<< >>} :
           set_tables(c, s, l)
    \/ \E c \in ConnIds, s \in SchemaNames, K \in OtherCategories,
          l \in ObjectLists :
           only_category_in_use(K) /\ set_objects(c, s, K, l)
    \/ \E c \in ConnIds, s \in SchemaNames :
           render_object_category_clicked(c, s, Tables)
    \/ search_toggle_clicked
    \/ \E text \in SearchTexts : search_text_edited(text)
    \/ search_clear_clicked

SpecVisible == Init /\ [][NextVisible]_vars

-----------------------------------------------------------------------------
(* The leaves: one schema with two tables, the columns of one of them and   *)
(* one view; the Tables and Views categories and the node of the table with *)
(* columns are clicked and the search text is edited.                       *)

LeafTables == <<"users", "orders">>
LeafTableNames == {"users", "orders"}
LeafColumns == <<"id", "user_name">>
LeafColumnNames == {"id", "user_name"}
LeafViews == <<"Users_v">>
LeafViewNames == {"Users_v"}
LeafCategories == {Tables, Views}

NextLeaf ==
    \/ \E c \in ConnIds : add_connection(c, "Local")
    \/ \E c \in ConnIds, l \in SchemaLists : set_schemas(c, l)
    \/ \E c \in ConnIds, s \in SchemaNames : set_object_counts(c, s, CountsAll)
    \/ \E c \in ConnIds, s \in SchemaNames : set_tables(c, s, LeafTables)
    \/ \E c \in ConnIds, s \in SchemaNames :
           set_columns(c, s, "users", LeafColumns)
    \/ \E c \in ConnIds, s \in SchemaNames : set_views(c, s, LeafViews)
    \/ \E c \in ConnIds, s \in SchemaNames, K \in LeafCategories :
           render_object_category_clicked(c, s, K)
    \/ \E c \in ConnIds, s \in SchemaNames :
           render_table_node_clicked(c, s, "users")
    \/ search_toggle_clicked
    \/ \E text \in SearchTexts : search_text_edited(text)

SpecLeaf == Init /\ [][NextLeaf]_vars

-----------------------------------------------------------------------------
(* The application frame by frame: the controller starts with one saved     *)
(* connection; every frame renders the tree with at most one pointer event, *)
(* then serves the fetch-needs, then the pending action and the dialogs (a   *)
(* dialog button can be clicked only in a frame whose pointer event did not *)
(* go to the tree).  The executor answers every call with Ok or Err.        *)

RenderOps ==
    {"render", "render_schema_node_clicked", "render_object_category_clicked",
     "render_table_node_clicked", "render_saved_connection_node_clicked",
     "render_saved_connection_node_double_clicked",
     "render_saved_connection_node_connect_clicked",
     "render_saved_connection_node_menu_clicked"}

\* the position of the controller in its frame, read off the last call
phase ==
    IF last_call.op = "new" THEN "start"
    ELSE IF last_call.op \in RenderOps THEN "expansion"
    ELSE IF last_call.op = "handle_tree_expansion_requests" THEN "action"
    ELSE "render"

CountsFrame == [ObjectCounts_default EXCEPT !.tables = 1, !.views = 1]
FrameCategories == {Tables, Views}
SchemasOut == {None, Some(<<"public">>)}
CountsOut(schemas_out) ==
    IF schemas_out = None THEN {<< >>}
    ELSE [1..Len(schemas_out[1]) -> {None, Some(CountsFrame)}]
TablesOut == {None, Some(<<"users">>)}
ColumnsOut == {None, Some(<<"id">>)}
ObjectsOut == {None, Some(<<"Users_v">>)}

\* the pending action is a Connect, the only one that calls the executor
connect_pending == pending_action # None /\ pending_action[1][1] = Connect

NextFrame ==
    \/ phase = "start" /\ \E l \in SavedLists : RBeaverApp_default(l)
    \/ phase = "render" /\ render_idle
    \/ phase = "render" /\ \E id \in SavedIds, a \in FrameActions :
           render_saved_connection_node_menu_clicked(id, a)
    \/ phase = "render" /\ \E c \in ConnIds, s \in SchemaNames :
           render_schema_node_clicked(c, s)
    \/ phase = "render" /\ \E c \in ConnIds, s \in SchemaNames,
                             K \in FrameCategories :
           render_object_category_clicked(c, s, K)
    \/ phase = "render" /\ \E c \in ConnIds, s \in SchemaNames,
                             t \in TableNames :
           render_table_node_clicked(c, s, t)
    \/ phase = "expansion" /\
           \E t_out \in [1..Len(schemas_needing_tables) -> TablesOut],
              c_out \in [1..Len(tables_needing_columns) -> ColumnsOut],
              o_out \in [1..Len(schemas_needing_objects) -> ObjectsOut] :
               handle_tree_expansion_requests(t_out, c_out, o_out)
    \/ phase = "action" /\
           \E ok \in BOOLEAN, s_out \in SchemasOut, d \in DialogEvents,
              save_ok \in BOOLEAN :
               \E n_out \in CountsOut(s_out) :
                   /\ ~(connect_pending /\ ok) => s_out = None
                   /\ ~connect_pending => ok
                   /\ last_call.args[4] # "render" => d = "none"
                   /\ d # "confirm" => save_ok
                   /\ update(ok, s_out, n_out, d, save_ok, TRUE, "u1")

SpecFrame == Init /\ [][NextFrame]_vars

-----------------------------------------------------------------------------
(* Collapsing: a connection with one schema, its table list and requests    *)
(* that nobody drains; every header is clicked open and closed, and Expand  *)
(* All and Collapse All are clicked.                                        *)

NextCollapse ==
    \/ \E c \in ConnIds : add_connection(c, "Local")
    \/ \E l \in SavedLists : set_saved_connections(l)
    \/ \E c \in ConnIds, l \in SchemaLists : set_schemas(c, l)
    \/ \E c \in ConnIds, s \in SchemaNames :
           set_object_counts(c, s, CountsFrame)
    \/ \E c \in ConnIds, s \in SchemaNames : set_tables(c, s, <<"users">>)
    \/ \E c \in ConnIds : render_connection_node_clicked(c)
    \/ \E id \in SavedIds : render_saved_connection_node_clicked(id)
    \/ \E c \in ConnIds, s \in SchemaNames : render_schema_node_clicked(c, s)
    \/ \E c \in ConnIds, s \in SchemaNames :
           render_object_category_clicked(c, s, Tables)
    \/ \E c \in ConnIds, s \in SchemaNames, t \in TableNames :
           render_table_node_clicked(c, s, t)
    \/ expand_all
    \/ collapse_all

SpecCollapse == Init /\ [][NextCollapse]_vars

-----------------------------------------------------------------------------
(* Cache writes: two connections, two schemas and two values for every      *)
(* setter; the headers of the first connection are clicked so that flags    *)
(* and requests exist while the caches are rewritten.                       *)

CacheConnIds == {"c1", "c2"}
CacheSchemaLists == {<<"public">>, <<"public", "audit">>}
CacheTableLists == {<<"users">>, <<"orders">>}

NextCache ==
    \/ \E c \in CacheConnIds : add_connection(c, "Local")
    \/ \E l \in CacheSchemaLists : set_schemas("c1", l)
    \/ set_object_counts("c1", "public", CountsWithTables)
    \/ \E l \in CacheTableLists : set_tables("c1", "public", l)
    \/ set_tables("c1", "audit", <<"users">>)
    \/ set_tables("c2", "public", <<"users">>)
    \/ set_columns("c1", "public", "orders", <<"id">>)
    \/ render_schema_node_clicked("c1", "audit")
    \/ render_object_category_clicked("c1", "public", Tables)
    \/ render_table_node_clicked("c1", "public", "orders")

SpecCache == Init /\ [][NextCache]_vars

-----------------------------------------------------------------------------
(* The union of saved and active connections: saved lists of several shapes *)
(* are handed to the tree, one of them with two records of the same id,     *)
(* while connections get and lose their nodes and the top-level headers of  *)
(* the first connection are clicked.                                        *)

UnionIds == {"c1", "c2"}
UnionSavedLists ==
    {<< >>,
     <<[id |-> "c1", name |-> "Local"]>>,
     <<[id |-> "c2", name |-> "Remote"]>>,
     <<[id |-> "c1", name |-> "Local"], [id |-> "c2", name |-> "Remote"]>>,
     <<[id |-> "c1", name |-> "Local"], [id |-> "c1", name |-> "Copy"]>>}

NextUnion ==
    \/ \E l \in UnionSavedLists : set_saved_connections(l)
    \/ \E c \in UnionIds : add_connection(c, "Local")
    \/ \E c \in UnionIds : remove_connection(c)
    \/ set_schemas("c1", <<"public">>)
    \/ render_saved_connection_node_clicked("c1")
    \/ render_connection_node_clicked("c1")
    \/ refresh_clicked

SpecUnion == Init /\ [][NextUnion]_vars

-----------------------------------------------------------------------------
(* Path keys: one connection with the schemas a and "a.b" (a quoted         *)
(* identifier may hold a dot), the table "b.c" in the first and the table c *)
(* in the second; the Tables categories and the two table nodes are         *)
(* clicked and the columns of each table arrive.                            *)

KeySchemas == <<"a", "a.b">>
KeyPaths == {<<"c1", "a", "b.c">>, <<"c1", "a.b", "c">>}
\* the column list the executor returns for a table
KeyColumns(path) == IF path[2] = "a" THEN <<"id">> ELSE <<"name">>

NextKeys ==
    \/ add_connection("c1", "Local")
    \/ set_schemas("c1", KeySchemas)
    \/ \E p \in KeyPaths : set_object_counts(p[1], p[2], CountsWithTables)
    \/ \E p \in KeyPaths : set_tables(p[1], p[2], <<p[3]>>)
    \/ \E p \in KeyPaths : set_columns(p[1], p[2], p[3], KeyColumns(p))
    \/ \E p \in KeyPaths : render_object_category_clicked(p[1], p[2], Tables)
    \/ \E p \in KeyPaths : render_table_node_clicked(p[1], p[2], p[3])

SpecKeys == Init /\ [][NextKeys]_vars

-----------------------------------------------------------------------------
(* The settings: connections of two ids are added, updated, duplicated and  *)
(* removed; some inputs reuse a name, some fail validation, and some ids    *)
(* are not saved.  The list holds at most MaxSaved records.                 *)

MaxSaved == 3

Params(id, name) == [ConnectionParams_default(id) EXCEPT !.name = name]
SettingsInputs ==
    {Params("c1", "Local"), Params("c2", "Local"), Params("c2", "Remote"),
     Params("c2", " "), [Params("c2", "Remote") EXCEPT !.host = ""],
     [Params("c1", "Local") EXCEPT !.host = "db", !.password = "pw"]}
\* the ids that are looked up; c9 is never saved
RemovedIds == {"c1", "u1", "c9"}
DuplicatedIds == {"c1", "c9"}
\* the values Uuid::new_v4() can return: ids that no record has yet
UuidPool == {"u1", "u2"}
NewNames == {None, Some("Local")}

NextSettings ==
    \/ \E c \in SettingsInputs :
           /\ Len(settings_add_connection(settings_connections, c).list)
                  <= MaxSaved
           /\ AppSettings_add_connection(c)
    \/ \E c \in SettingsInputs : AppSettings_update_connection(c)
    \/ \E id \in RemovedIds : AppSettings_remove_connection(id)
    \/ \E id \in DuplicatedIds, n \in NewNames,
          u \in UuidPool \ ids_of(settings_connections) :
           /\ Len(settings_connections) < MaxSaved
           /\ AppSettings_duplicate_connection(id, n, u)

SpecSettings == Init /\ [][NextSettings]_vars

-----------------------------------------------------------------------------
(* The confirmation dialog on its own: it is shown for a deletion or with a *)
(* text of the caller, rendered with or without a click on one of its       *)
(* buttons, asked for its result and closed, in any order.                  *)

ItemNames == {"Local", "Remote"}
DialogTitles == {"Delete all", "Reset"}
DialogMessages == {"Sure?", "All data will be lost."}
ConfirmTexts == {"Yes", "Reset"}

NextDialog ==
    \/ \E n \in ItemNames : ConfirmationDialog_show_delete_confirmation(n)
    \/ \E t \in DialogTitles, m \in DialogMessages, c \in ConfirmTexts :
           ConfirmationDialog_show_confirmation(t, m, c)
    \/ \E b \in DialogButtons \cup {"none"} : ConfirmationDialog_render(b)
    \/ ConfirmationDialog_take_confirmed
    \/ ConfirmationDialog_take_cancelled
    \/ ConfirmationDialog_close

SpecDialog == Init /\ [][NextDialog]_vars

-----------------------------------------------------------------------------
(* The five actions frame by frame: the controller starts with one saved    *)
(* connection; every item of its context menu is clicked, the schema node   *)
(* and the Tables category of the connected node are clicked, and every     *)
(* frame ends with the drains and the dispatch of the pending action.       *)
(* Duplicate is clicked while the list holds fewer than MaxSaved records.   *)

\* the ids Uuid::new_v4 draws from: never one a saved record has
FreshIds == {"u1", "u2", "u3"}

duplicate_pending ==
    pending_action # None /\ pending_action[1][1] = Duplicate
copy_pending == pending_action # None /\ pending_action[1][1] = CopyUrl

NextIntent ==
    \/ phase = "start" /\ \E l \in SavedLists : RBeaverApp_default(l)
    \/ phase = "render" /\ render_idle
    \/ phase = "render" /\ \E id \in SavedIds, a \in ConnectionAction :
           /\ a = Duplicate => Len(saved_connections) < MaxSaved
           /\ render_saved_connection_node_menu_clicked(id, a)
    \/ phase = "render" /\ \E c \in ConnIds, s \in SchemaNames :
           render_schema_node_clicked(c, s)
    \/ phase = "render" /\ \E c \in ConnIds, s \in SchemaNames :
           render_object_category_clicked(c, s, Tables)
    \/ phase = "expansion" /\
           \E t_out \in [1..Len(schemas_needing_tables) -> TablesOut] :
               handle_tree_expansion_requests(t_out, << >>, << >>)
    \/ phase = "action" /\
           \E ok \in BOOLEAN, s_out \in SchemasOut, d \in DialogEvents,
              save_ok \in BOOLEAN, clipboard_ok \in BOOLEAN,
              u \in FreshIds :
               \E n_out \in CountsOut(s_out) :
                   /\ ~(connect_pending /\ ok) => s_out = None
                   /\ ~connect_pending => ok
                   /\ last_call.args[4] # "render" => d = "none"
                   /\ ~(d = "confirm" \/ duplicate_pending) => save_ok
                   /\ ~copy_pending => clipboard_ok
                   /\ duplicate_pending =>
                          u \notin ids_of(settings_connections)
                   /\ ~duplicate_pending => u = "u1"
                   /\ update(ok, s_out, n_out, d, save_ok, clipboard_ok, u)

SpecIntent == Init /\ [][NextIntent]_vars

-----------------------------------------------------------------------------
(* Removal among several connections: the ids c1, c10 and "c1.x" (ids are   *)
(* arbitrary strings: ConnectionParams.id is a String that settings.json    *)
(* supplies unvalidated).  Every node can be added, loaded, expanded and     *)
(* removed, and its schema node expanded; the Tables category and the      *)
(* table node of "c1.x" can be expanded as well.                            *)

RemoveIds == {"c1", "c10", "c1.x"}
DeepIds == {"c1.x"}

NextRemove ==
    \/ \E c \in RemoveIds : add_connection(c, "Local")
    \/ \E c \in RemoveIds : remove_connection(c)
    \/ \E c \in RemoveIds : set_schemas(c, <<"public">>)
    \/ \E c \in RemoveIds : render_schema_node_clicked(c, "public")
    \/ \E c \in DeepIds : render_connection_node_clicked(c)
    \/ \E c \in DeepIds : set_tables(c, "public", <<"users">>)
    \/ \E c \in DeepIds :
           /\ contains_key(connections, c)
           /\ contains_key(connections[c].tables, "public")
           /\ set_object_counts(c, "public", CountsWithTables)
    \/ \E c \in DeepIds : render_object_category_clicked(c, "public", Tables)
    \/ \E c \in DeepIds : render_table_node_clicked(c, "public", "users")

SpecRemove == Init /\ [][NextRemove]_vars

-----------------------------------------------------------------------------
(* Removal with needs outstanding: connection c1, saved or not, is added,   *)
(* loaded, selected and removed while its category and table nodes are      *)
(* opened and its menu is used; the queues and the pending action are       *)
(* drained at any time, also after the removal.  Nodes are opened, never    *)
(* closed, a setter is called when it changes the node, and the menu is     *)
(* used while no action is pending.                                         *)

NextNeeds ==
    \/ \E l \in SavedLists \cup {<< >>} : set_saved_connections(l)
    \/ add_connection("c1", "Local")
    \/ remove_connection("c1")
    \/ /\ set_schemas("c1", <<"public">>)
       /\ connections' # connections
    \/ /\ set_object_counts("c1", "public", CountsAll)
       /\ connections' # connections
    \/ /\ set_tables("c1", "public", <<"users">>)
       /\ connections' # connections
    \/ \E K \in DrainCategories :
           /\ ~get_or(expanded_object_categories,
                      category_key("c1", "public", K), FALSE)
           /\ render_object_category_clicked("c1", "public", K)
    \/ /\ ~get_or(expanded_tables,
                   table_key("c1", "public", "users"), FALSE)
       /\ render_table_node_clicked("c1", "public", "users")
    \/ render_connection_node_secondary_clicked("c1")
    \/ /\ pending_action = None
       /\ render_saved_connection_node_menu_clicked("c1", Delete)
    \/ get_schemas_needing_tables
    \/ get_schemas_needing_objects
    \/ get_tables_needing_columns
    \/ get_pending_action

SpecNeeds == Init /\ [][NextNeeds]_vars

-----------------------------------------------------------------------------
(* The controller and its three lists: the settings are loaded with no      *)
(* record or with c1; frames pass in which the menu of c1 is used with      *)
(* every action, and frames in which the connection dialog saves, saves and *)
(* connects or updates a record.  The dialog holds a new record with a      *)
(* fresh id, or the record of c1 under its name or another.  The saved     *)
(* list grows to MaxSaved records at most; the schema fetch of a connect    *)
(* succeeds and its counts fetch fails; of the menu of the new record only  *)
(* Delete is used, and the header of c1 is clicked once.                    *)

ControllerLists == {<< >>, <<Params("c1", "Local")>>}
DialogParams ==
    {Params("u1", "Local"), Params("u1", "Dev"), Params("c1", "Local"),
     Params("c1", "Dev")}

ControllerIds == {"c1", "u1"}
\* the schema fetch of a load succeeds
LoadedSchemas(loads) == IF loads THEN Some(<<"public">>) ELSE None
\* every counts fetch of the load fails
NoCounts(schemas_out) ==
    IF schemas_out = None THEN << >>
    ELSE [i \in 1..Len(schemas_out[1]) |-> None]

\* the value of Uuid::new_v4(): an id no saved record has
NextUuid ==
    IF "u2" \notin ids_of(settings_connections) THEN "u2"
    ELSE IF "u3" \notin ids_of(settings_connections) THEN "u3"
    ELSE "u4"

NextController ==
    \/ phase = "start" /\ \E l \in ControllerLists : RBeaverApp_default(l)
    \/ phase = "render" /\ render_idle
    \/ phase = "render" /\ \E id \in ControllerIds, a \in ConnectionAction :
           /\ a = Duplicate => Len(saved_connections) < MaxSaved
           /\ id # "c1" => a = Delete
           /\ render_saved_connection_node_menu_clicked(id, a)
    \/ phase = "render" /\ selected_item = None
                        /\ render_saved_connection_node_clicked("c1")
    \/ phase = "expansion" /\ handle_tree_expansion_requests(<< >>, << >>, << >>)
    \/ phase = "action" /\
           \E ok \in BOOLEAN, d \in DialogEvents, save_ok \in BOOLEAN :
               /\ ~connect_pending => ok
               /\ last_call.args[4] # "render" => d = "none"
               /\ ~(d = "confirm" \/ duplicate_pending) => save_ok
               /\ update(ok, LoadedSchemas(connect_pending /\ ok),
                         NoCounts(LoadedSchemas(connect_pending /\ ok)),
                         d, save_ok, TRUE, NextUuid)
    \/ phase = "action" /\ last_call.args[4] = "render" /\
           \E a \in DialogActions, p \in DialogParams, ok \in BOOLEAN,
              save_ok \in BOOLEAN :
               /\ a = "UpdateConnection" => p.id = "c1"
               /\ a # "UpdateConnection" => p.id = "u1"
               /\ a # "SaveAndConnect" => ok
               /\ Len(settings_connections) < MaxSaved
               /\ update_connection_dialog(
                      a, p, ok, LoadedSchemas(a = "SaveAndConnect" /\ ok),
                      NoCounts(LoadedSchemas(a = "SaveAndConnect" /\ ok)),
                      save_ok)

SpecController == Init /\ [][NextController]_vars

-----------------------------------------------------------------------------
(* Loading: the toolbar and the nodes of saved connection c1 are clicked,   *)
(* results arrive, the queues and the pending action are drained, and the   *)
(* loading flag is set by Refresh and by set_loading and reset by           *)
(* set_schemas, set_loading and clear.  A node is opened, never closed.     *)

NextLoading ==
    \/ \E l \in SavedLists : set_saved_connections(l)
    \/ add_connection("c1", "Local")
    \/ set_schemas("c1", <<"public">>)
    \/ set_object_counts("c1", "public", CountsWithTables)
    \/ \E b \in BOOLEAN : set_loading(b)
    \/ clear
    \/ refresh_clicked
    \/ expand_all
    \/ collapse_all
    \/ search_toggle_clicked
    \/ render_saved_connection_node_clicked("c1")
    \/ /\ pending_action = None
       /\ render_saved_connection_node_menu_clicked("c1", Connect)
    \/ /\ ~get_or(expanded_schemas, schema_key("c1", "public"), FALSE)
       /\ render_schema_node_clicked("c1", "public")
    \/ /\ ~get_or(expanded_object_categories,
                   category_key("c1", "public", Tables), FALSE)
       /\ render_object_category_clicked("c1", "public", Tables)
    \/ get_schemas_needing_tables
    \/ get_pending_action

SpecLoading == Init /\ [][NextLoading]_vars

-----------------------------------------------------------------------------
(* Claims checked under Spec *)

is_expanded(map, key) == get_or(map, key, FALSE)

\* C1: a click that takes the Tables category of (C,S) from closed to open
\* appends (C,S) to schemas_needing_tables iff C's tables map has no entry
\* for S, and a click that takes table node (C,S,T) from closed to open
\* appends (C,S,T) to tables_needing_columns iff C's columns map has no entry
\* for (S,T); with the entry present (even an empty list) or on a click from
\* open to closed the queue is left as it was.
C1_LazyFetchTrigger ==
    [][\A c \in ConnIds, s \in SchemaNames, t \in TableNames :
        /\ render_object_category_clicked(c, s, Tables) =>
              IF /\ ~is_expanded(expanded_object_categories,
                                 category_key(c, s, Tables))
                 /\ s \notin DOMAIN connections[c].tables
              THEN schemas_needing_tables' =
                       Append(schemas_needing_tables, <<c, s>>)
              ELSE schemas_needing_tables' = schemas_needing_tables
        /\ render_table_node_clicked(c, s, t) =>
              IF /\ ~is_expanded(expanded_tables, table_key(c, s, t))
                 /\ column_key(s, t) \notin DOMAIN connections[c].columns
              THEN tables_needing_columns' =
                       Append(tables_needing_columns, <<c, s, t>>)
              ELSE tables_needing_columns' = tables_needing_columns
      ]_vars

\* C1 witness: the Tables category was just opened while its table list was
\* cached as the empty list, and nothing was queued.
C1_Witness ==
    /\ last_call.op = "render_object_category_clicked"
    /\ last_call.args = <<"c1", "public", Tables>>
    /\ is_expanded(expanded_object_categories,
                   category_key("c1", "public", Tables))
    /\ contains_key(connections, "c1")
    /\ contains_key(connections["c1"].tables, "public")
    /\ connections["c1"].tables["public"] = << >>
    /\ schemas_needing_tables = << >>

\* C3 as stated: a click that opens the schema node of (C,S) while C's tables
\* map has no entry for S appends (C,S) to schemas_needing_tables.
C3_SchemaNodeEnqueues ==
    [][\A c \in ConnIds, s \in SchemaNames :
        ( /\ render_schema_node_clicked(c, s)
          /\ ~is_expanded(expanded_schemas, schema_key(c, s))
          /\ s \notin DOMAIN connections[c].tables )
        => schemas_needing_tables' = Append(schemas_needing_tables, <<c, s>>)
      ]_vars

\* C3 amended: a click on the schema node leaves schemas_needing_tables as it
\* was; a click that opens the Tables category of (C,S) while the tables
\* entry is absent makes the queue one longer with (C,S) last, whether or not
\* (C,S) is already waiting in it (no deduplication); and
\* get_schemas_needing_tables returns the whole queue and leaves it empty.
C3_TablesCategoryEnqueues ==
    [][/\ \A c \in ConnIds, s \in SchemaNames :
           /\ render_schema_node_clicked(c, s) =>
                 schemas_needing_tables' = schemas_needing_tables
           /\ ( /\ render_object_category_clicked(c, s, Tables)
                /\ ~is_expanded(expanded_object_categories,
                                category_key(c, s, Tables))
                /\ s \notin DOMAIN connections[c].tables )
              => /\ Len(schemas_needing_tables') =
                        Len(schemas_needing_tables) + 1
                 /\ schemas_needing_tables'[Len(schemas_needing_tables')] =
                        <<c, s>>
                 /\ SubSeq(schemas_needing_tables', 1,
                           Len(schemas_needing_tables)) =
                        schemas_needing_tables
       /\ get_schemas_needing_tables =>
              /\ last_call'.ret = schemas_needing_tables
              /\ schemas_needing_tables' = << >>
      ]_vars

\* C3 witness: the drain has just handed back two (c1, public) tuples.
C3_Witness ==
    /\ last_call.op = "get_schemas_needing_tables"
    /\ last_call.ret = << <<"c1", "public">>, <<"c1", "public">> >>
    /\ schemas_needing_tables = << >>

\* C5 as stated: set_schemas for an id without a ConnectionNode changes no
\* component of the tree state.
C5_SetSchemasUnknownNoOp ==
    [][\A c \in ConnIds, l \in SchemaLists :
        (set_schemas(c, l) /\ ~contains_key(connections, c))
        => UNCHANGED tree
      ]_vars

\* C5 amended: set_schemas for an id without a ConnectionNode creates no node
\* and changes nothing but the loading flag, which it sets to false.
C5_SetSchemasUnknownClearsLoading ==
    [][\A c \in ConnIds, l \in SchemaLists :
        (set_schemas(c, l) /\ ~contains_key(connections, c))
        => /\ is_loading' = FALSE
           /\ UNCHANGED <<connections, saved_connections, expansion,
                          selected_item, search, queues, pending_action>>
      ]_vars

\* C5 witness: set_schemas was just called for a connection that has no node
\* while an expansion flag and a queued fetch-need were there to be kept.
C5_Witness ==
    /\ last_call.op = "set_schemas"
    /\ ~contains_key(connections, last_call.args[1])
    /\ DOMAIN expanded_object_categories # {}
    /\ schemas_needing_tables # << >>

\* C7 as stated: after remove_connection(C) no expansion map (connections,
\* schemas, object categories, tables) holds a key that is C or starts
\* with "C.".
C7_RemovePrunesAllExpansion ==
    last_call.op = "remove_connection" =>
        LET c == last_call.args[1]
            stale(m) == \E k \in DOMAIN m : k = c \/ starts_with(k, c \o ".")
        IN /\ ~contains_key(connections, c)
           /\ ~stale(expanded_connections)
           /\ ~stale(expanded_schemas)
           /\ ~stale(expanded_object_categories)
           /\ ~stale(expanded_tables)

\* C13 as stated: with the queues empty and no tables entry for S, a click
\* that opens the schema node of (C,S) leaves exactly [(C,S)] in
\* schemas_needing_tables (which the drain then returns); after
\* set_tables(C,S,[users]) the next render draws the Tables category and its
\* one table, and a click on the category appends no fetch-need.
C13_EndToEndViaSchemaNode ==
    [][\A c \in ConnIds, s \in SchemaNames :
        /\ ( /\ render_schema_node_clicked(c, s)
             /\ ~is_expanded(expanded_schemas, schema_key(c, s))
             /\ s \notin DOMAIN connections[c].tables
             /\ schemas_needing_tables = << >> )
           => schemas_needing_tables' = << <<c, s>> >>
        /\ ( /\ set_tables(c, s, <<"users">>)
             /\ contains_key(connections, c) /\ schema_node_rendered(c, s) )
           => /\ object_category_rendered(c, s, Tables)'
              /\ table_node_rendered(c, s, "users")'
        /\ ( /\ render_object_category_clicked(c, s, Tables)
             /\ s \in DOMAIN connections[c].tables )
           => UNCHANGED queues
      ]_vars

\* C13 amended: a click on the schema node appends nothing; with the queues
\* empty and no tables entry for S, a click that opens the Tables category of
\* (C,S) (drawn once the counts of S report tables > 0) leaves exactly
\* [(C,S)] in schemas_needing_tables and get_schemas_needing_tables returns
\* exactly that; after set_tables(C,S,[users]) the next render of a schema
\* whose counts report tables > 0 draws the Tables category and its one
\* table, and a click on the category appends no fetch-need.
C13_EndToEndViaTablesCategory ==
    [][\A c \in ConnIds, s \in SchemaNames :
        /\ render_schema_node_clicked(c, s) => UNCHANGED queues
        /\ ( /\ render_object_category_clicked(c, s, Tables)
             /\ ~is_expanded(expanded_object_categories,
                             category_key(c, s, Tables))
             /\ s \notin DOMAIN connections[c].tables
             /\ schemas_needing_tables = << >> )
           => schemas_needing_tables' = << <<c, s>> >>
        /\ ( /\ get_schemas_needing_tables
             /\ schemas_needing_tables = << <<c, s>> >> )
           => /\ last_call'.ret = << <<c, s>> >>
              /\ schemas_needing_tables' = << >>
        /\ ( /\ set_tables(c, s, <<"users">>)
             /\ contains_key(connections, c) /\ schema_node_rendered(c, s)
             /\ schema_counts(connections, c, s).tables > 0 )
           => /\ object_category_rendered(c, s, Tables)'
              /\ table_node_rendered(c, s, "users")'
              /\ connections'[c].tables[s] = <<"users">>
        /\ ( /\ render_object_category_clicked(c, s, Tables)
             /\ s \in DOMAIN connections[c].tables )
           => UNCHANGED queues
      ]_vars

\* C13 witness: the table list [users] has arrived, the schema node is open,
\* the Tables category has just been opened again with its table node drawn,
\* and every queue is empty.
C13_Witness ==
    /\ last_call.op = "render_object_category_clicked"
    /\ last_call.args = <<"c1", "public", Tables>>
    /\ is_expanded(expanded_schemas, schema_key("c1", "public"))
    /\ is_expanded(expanded_object_categories,
                   category_key("c1", "public", Tables))
    /\ table_node_rendered("c1", "public", "users")
    /\ connections["c1"].tables["public"] = <<"users">>
    /\ schemas_needing_tables = << >>
    /\ schemas_needing_objects = << >>
    /\ tables_needing_columns = << >>

-----------------------------------------------------------------------------
(* Claims checked under SpecObjects *)

\* C2 as stated: a click that opens category K (Views, Functions, Triggers,
\* Sequences or Indexes) of (C,S) while C's cache map for K already holds an
\* entry for S appends nothing to schemas_needing_objects.
C2_CachedCategoryNotRequeued ==
    [][\A c \in ConnIds, s \in SchemaNames, K \in OtherCategories :
        ( /\ render_object_category_clicked(c, s, K)
          /\ s \in DOMAIN category_cache(connections[c], K) )
        => schemas_needing_objects' = schemas_needing_objects
      ]_vars

-----------------------------------------------------------------------------
(* Claims checked under SpecDrain *)

\* C4: each drain returns its whole queue in order, leaves it empty and
\* leaves the other two queues as they were, so a drain that follows with
\* nothing appended in between returns the empty list.
C4_DrainSemantics ==
    [][/\ get_schemas_needing_tables =>
              /\ last_call'.ret = schemas_needing_tables
              /\ schemas_needing_tables' = << >>
              /\ UNCHANGED <<schemas_needing_objects, tables_needing_columns>>
       /\ get_schemas_needing_objects =>
              /\ last_call'.ret = schemas_needing_objects
              /\ schemas_needing_objects' = << >>
              /\ UNCHANGED <<schemas_needing_tables, tables_needing_columns>>
       /\ get_tables_needing_columns =>
              /\ last_call'.ret = tables_needing_columns
              /\ tables_needing_columns' = << >>
              /\ UNCHANGED <<schemas_needing_tables, schemas_needing_objects>>
      ]_vars

\* C4 witness: get_tables_needing_columns has just handed back two different
\* tables in the order they were opened, and the other queues still hold
\* their entries.
C4_Witness ==
    /\ last_call.op = "get_tables_needing_columns"
    /\ last_call.ret = << <<"c1", "public", "users">>,
                          <<"c1", "public", "orders">> >>
    /\ tables_needing_columns = << >>
    /\ schemas_needing_tables # << >>
    /\ schemas_needing_objects # << >>

-----------------------------------------------------------------------------
(* Claims checked under SpecSetters *)

SetterOps ==
    {"set_tables", "set_columns", "set_views", "set_functions",
     "set_triggers", "set_sequences", "set_indexes", "set_object_counts"}

\* C6: a step made by set_tables, set_columns, set_views, set_functions,
\* set_triggers, set_sequences, set_indexes or set_object_counts for an id
\* that has no ConnectionNode leaves every field of the tree as it was; in
\* particular no node appears for that id.
C6_SettersUnknownNoOp ==
    [][( /\ last_call'.op \in SetterOps
         /\ ~contains_key(connections, last_call'.args[1]) )
       => UNCHANGED tree
      ]_vars

\* C6 witness: set_columns was just called for a connection whose node has
\* been removed, while its category flag and its queued fetch-need remain.
C6_Witness ==
    /\ last_call.op = "set_columns"
    /\ ~contains_key(connections, last_call.args[1])
    /\ DOMAIN expanded_object_categories # {}
    /\ schemas_needing_tables # << >>

-----------------------------------------------------------------------------
(* Claims checked under SpecAction *)

occurrences(seq, x) == Cardinality({i \in 1..Len(seq) : seq[i] = x})

\* C8: get_pending_action returns what the slot holds and leaves it empty, a
\* menu click leaves Some((action, id)) in the slot, and of the writes made
\* so far each one is either still in the slot, or was replaced in the slot
\* and never returned, or was returned exactly once.
C8_TakeAndClear ==
    [][/\ get_pending_action =>
              /\ last_call'.ret = pending_action
              /\ pending_action' = None
       /\ \A id \in SavedIds, a \in ConnectionAction :
              render_saved_connection_node_menu_clicked(id, a) =>
                  pending_action' = Some(<<a, id>>)
       /\ (pending_action' = None) = (slot_write' = 0)
       /\ \A i \in 1..write_count' :
              \/ /\ slot_write' = i
                 /\ occurrences(delivered', i) = 0 /\ i \notin overwritten'
              \/ /\ slot_write' # i /\ i \in overwritten'
                 /\ occurrences(delivered', i) = 0
              \/ /\ slot_write' # i /\ i \notin overwritten'
                 /\ occurrences(delivered', i) = 1
      ]_vars

\* C8 witness: one action was written and returned, and the call after that
\* has just returned None.
C8_Witness ==
    /\ last_call.op = "get_pending_action"
    /\ last_call.ret = None
    /\ write_count = 1
    /\ delivered = <<1>>

\* C9: the slot holds at most one (action, id), and it is the most recent
\* write; a write that was replaced in the slot is never returned; a call of
\* get_pending_action that returns Some returns the most recent write.
C9_SingleSlotOverwrite ==
    /\ Len(pending_action) <= 1
    /\ pending_action # None => slot_write = write_count
    /\ \A i \in overwritten : occurrences(delivered, i) = 0
    /\ (last_call.op = "get_pending_action" /\ last_call.ret # None)
           => delivered[Len(delivered)] = write_count
    /\ last_call.op = "render_saved_connection_node_menu_clicked"
           => pending_action = Some(<<last_call.args[2], last_call.args[1]>>)

\* C9 witness: Edit was written, Delete replaced it before any take, and
\* get_pending_action has just returned Delete.
C9_Witness ==
    /\ last_call.op = "get_pending_action"
    /\ last_call.ret = Some(<<Delete, "c1">>)
    /\ overwritten = {1}
    /\ delivered = <<2>>

-----------------------------------------------------------------------------
(* Claims checked under SpecVisible *)

\* the claim's rule for category K of schema S in connection C
claimed_visible(c, s, K) ==
    LET n == get_or(connections[c].object_counts, s, ObjectCounts_default)
        aggregate ==
            CASE K = Tables -> n.tables
              [] K = Views -> n.views + n.materialized_views
              [] K = Functions -> n.functions + n.procedures
              [] K = Triggers -> n.triggers
              [] K = Sequences -> n.sequences
              [] K = Indexes -> n.indexes
        cache == category_cache(connections[c], K)
        loaded == IF s \in DOMAIN cache THEN cache[s] ELSE << >>
    IN /\ aggregate # 0
       /\ \/ search_text = ""
          \/ \E i \in 1..Len(loaded) :
                 contains(to_lowercase(loaded[i]), to_lowercase(search_text))

\* C10: render_object_category draws category K of (C,S) iff K's aggregate
\* count is nonzero (Views = views + materialized_views, Functions =
\* functions + procedures) and, when the search text is non-empty, a name of
\* K's loaded list contains it (compared in lower case); with tables = 0 the
\* Tables category is not drawn, whatever the flags and the tables cache hold.
C10_CategoryVisibility ==
    \A c \in DOMAIN connections, s \in SchemaNames :
        /\ \A K \in {Tables} \cup OtherCategories :
               category_shown(connections, search_text, c, s, K)
                   = claimed_visible(c, s, K)
        /\ get_or(connections[c].object_counts, s,
                  ObjectCounts_default).tables = 0
               => ~object_category_rendered(c, s, Tables)

\* C10 witness: the schema has materialized views only, its views list is
\* loaded, the search text matches a view name in another letter case, and
\* the Views category is drawn.
C10_Witness ==
    /\ contains_key(connections, "c1")
    /\ contains_key(connections["c1"].object_counts, "public")
    /\ connections["c1"].object_counts["public"].views = 0
    /\ connections["c1"].object_counts["public"].materialized_views > 0
    /\ contains_key(connections["c1"].views, "public")
    /\ connections["c1"].views["public"] = <<"Users_v">>
    /\ search_text = "us"
    /\ object_category_rendered("c1", "public", Views)

\* the aggregate count of category K in schema S of connection C is nonzero
counted(c, s, K) ==
    category_count(K, schema_counts(connections, c, s)) # 0

\* C's cache map for category K holds an entry (possibly empty) for S
loaded(c, s, K) == contains_key(category_cache(connections[c], K), s)

\* C11: while the search text is non-empty, a category with count > 0 whose
\* cache entry is absent is not drawn and a category with count > 0 whose
\* loaded list holds a matching name is drawn; a step that empties the search
\* text (Clear, or hiding the search bar) leaves every such undrawn category
\* drawn and changes no queue, no cache and no expansion entry.
C11_SearchOverPartialData ==
    [][\A c \in DOMAIN connections, s \in SchemaNames,
         K \in {Tables} \cup OtherCategories :
        /\ (search_text # "" /\ counted(c, s, K) /\ ~loaded(c, s, K))
               => ~category_shown(connections, search_text, c, s, K)
        /\ ( /\ search_text # "" /\ counted(c, s, K) /\ loaded(c, s, K)
             /\ \E i \in 1..Len(category_cache(connections[c], K)[s]) :
                    contains(to_lowercase(category_cache(connections[c], K)[s][i]),
                             to_lowercase(search_text)) )
               => category_shown(connections, search_text, c, s, K)
        /\ (search_text # "" /\ search_text' = "")
               => /\ UNCHANGED <<connections, expansion, queues>>
                  /\ (counted(c, s, K) /\ ~loaded(c, s, K))
                         => category_shown(connections', search_text', c, s, K)
      ]_vars

\* C11 witness: Clear has just emptied the search text "us"; Views has a
\* count but no cached list and is drawn again, Tables holds "users", and a
\* fetch-need and an expansion flag are still in place.
C11_Witness ==
    /\ last_call.op = "search_clear_clicked"
    /\ last_call.args = <<"us">>
    /\ search_text = ""
    /\ contains_key(connections, "c1")
    /\ counted("c1", "public", Views) /\ ~loaded("c1", "public", Views)
    /\ object_category_rendered("c1", "public", Views)
    /\ loaded("c1", "public", Tables)
    /\ connections["c1"].tables["public"] = <<"users">>
    /\ schemas_needing_tables # << >>
    /\ DOMAIN expanded_object_categories # {}

-----------------------------------------------------------------------------
(* Claims checked under SpecLeaf *)

\* the name contains the search text, both taken in lower case
name_contains_search(name) ==
    contains(to_lowercase(name), to_lowercase(search_text))

\* the category header of (C,S,K) is drawn and its flag is open
category_open(c, s, K) ==
    /\ object_category_rendered(c, s, K)
    /\ is_expanded(expanded_object_categories, category_key(c, s, K))

\* the table node of (C,S,T) is drawn under an open Tables category and its
\* own flag is open
table_open(c, s, t) ==
    /\ category_open(c, s, Tables)
    /\ table_node_rendered(c, s, t)
    /\ is_expanded(expanded_tables, table_key(c, s, t))

\* C12 as stated: every drawn object leaf (table, view, ..., column) has a
\* name that contains the search text compared in lower case, and every
\* loaded object (or column) of a drawn, open parent whose name contains the
\* search text is drawn; with empty search text every loaded object of an
\* open parent is drawn.
C12_LeafFilter ==
    \A c \in DOMAIN connections, s \in SchemaNames :
        /\ \A K \in LeafCategories, n \in LeafTableNames \cup LeafViewNames :
               /\ (category_open(c, s, K) /\ object_node_rendered(c, s, K, n))
                      => name_contains_search(n)
               /\ ( /\ category_open(c, s, K) /\ loaded(c, s, K)
                    /\ \E i \in 1..Len(category_cache(connections[c], K)[s]) :
                           category_cache(connections[c], K)[s][i] = n
                    /\ name_contains_search(n) )
                      => object_node_rendered(c, s, K, n)
        /\ \A t \in LeafTableNames, col \in LeafColumnNames :
               /\ (table_open(c, s, t) /\ column_node_rendered(c, s, t, col))
                      => name_contains_search(col)
               /\ ( /\ table_open(c, s, t)
                    /\ contains_key(connections[c].columns, column_key(s, t))
                    /\ \E i \in 1..Len(connections[c].columns[column_key(s, t)]) :
                           connections[c].columns[column_key(s, t)][i] = col
                    /\ name_contains_search(col) )
                      => column_node_rendered(c, s, t, col)

-----------------------------------------------------------------------------
(* Claims checked under SpecFrame *)

\* the loop over a drained queue found only failures for this item
all_failed(items, outcomes, item) ==
    \A j \in 1..Len(items) : items[j] = item => outcomes[j] = None

\* C14: when the executor call for a drained table or column fetch-need
\* fails, the controller sets last_error, and when no call of the pass
\* succeeds no cache changes; the cache entry of a failed request stays
\* absent.  A step appends to schemas_needing_tables or tables_needing_columns
\* only if it is a click that takes that node from closed to open, and such a
\* click on a node whose entry is absent does append the request.
C14_FailedFetchManualRetry ==
    [][/\ last_call'.op = "handle_tree_expansion_requests" =>
            LET t_out == last_call'.args[1]
                c_out == last_call'.args[2]
                o_out == last_call'.args[3]
            IN /\ \A i \in 1..Len(schemas_needing_tables) :
                      LET item == schemas_needing_tables[i]
                      IN (item[1] \in app_connections /\ t_out[i] = None)
                         => /\ last_error' # None
                            /\ ( /\ all_failed(schemas_needing_tables, t_out, item)
                                 /\ item[2] \notin DOMAIN connections[item[1]].tables )
                               => item[2] \notin DOMAIN connections'[item[1]].tables
               /\ \A i \in 1..Len(tables_needing_columns) :
                      LET item == tables_needing_columns[i]
                          key == column_key(item[2], item[3])
                      IN (item[1] \in app_connections /\ c_out[i] = None)
                         => /\ last_error' # None
                            /\ ( /\ all_failed(tables_needing_columns, c_out, item)
                                 /\ key \notin DOMAIN connections[item[1]].columns )
                               => key \notin DOMAIN connections'[item[1]].columns
               /\ ( /\ \A i \in 1..Len(t_out) : t_out[i] = None
                    /\ \A i \in 1..Len(c_out) : c_out[i] = None
                    /\ \A i \in 1..Len(o_out) : o_out[i] = None )
                  => connections' = connections
       /\ (schemas_needing_tables' \notin {schemas_needing_tables, << >>}) =>
            \E c \in ConnIds, s \in SchemaNames :
                /\ render_object_category_clicked(c, s, Tables)
                /\ ~is_expanded(expanded_object_categories,
                                category_key(c, s, Tables))
                /\ schemas_needing_tables' =
                       Append(schemas_needing_tables, <<c, s>>)
       /\ (tables_needing_columns' \notin {tables_needing_columns, << >>}) =>
            \E c \in ConnIds, s \in SchemaNames, t \in TableNames :
                /\ render_table_node_clicked(c, s, t)
                /\ ~is_expanded(expanded_tables, table_key(c, s, t))
                /\ tables_needing_columns' =
                       Append(tables_needing_columns, <<c, s, t>>)
       /\ \A c \in ConnIds, s \in SchemaNames, t \in TableNames :
            /\ ( /\ render_object_category_clicked(c, s, Tables)
                 /\ ~is_expanded(expanded_object_categories,
                                 category_key(c, s, Tables))
                 /\ s \notin DOMAIN connections[c].tables )
               => schemas_needing_tables' =
                      Append(schemas_needing_tables, <<c, s>>)
            /\ ( /\ render_table_node_clicked(c, s, t)
                 /\ ~is_expanded(expanded_tables, table_key(c, s, t))
                 /\ column_key(s, t) \notin DOMAIN connections[c].columns )
               => tables_needing_columns' =
                      Append(tables_needing_columns, <<c, s, t>>)
      ]_vars

\* C14 witness: the table fetch of (c1, public) failed, the error is still
\* shown, the tables entry is absent, and the Tables category has just been
\* opened again and has queued the request again.
C14_Witness ==
    /\ last_call.op = "render_object_category_clicked"
    /\ last_call.args = <<"c1", "public", Tables>>
    /\ last_error = Some(<<"Failed to load tables", <<"c1", "public">>>>)
    /\ "public" \notin DOMAIN connections["c1"].tables
    /\ schemas_needing_tables = << <<"c1", "public">> >>

\* C15: a click that takes table node (C,S,T) from closed to open while its
\* columns entry is absent appends (C,S,T) to tables_needing_columns whether
\* or not the same request was queued and drained before, and no click on a
\* table node makes the queue more than one entry longer.
C15_NoDedupAcrossDrains ==
    [][\A c \in ConnIds, s \in SchemaNames, t \in TableNames :
        render_table_node_clicked(c, s, t) =>
            /\ Len(tables_needing_columns') <= Len(tables_needing_columns) + 1
            /\ ( /\ ~is_expanded(expanded_tables, table_key(c, s, t))
                 /\ column_key(s, t) \notin DOMAIN connections[c].columns )
               => tables_needing_columns' =
                      Append(tables_needing_columns, <<c, s, t>>)
      ]_vars

\* C15 witness: the column request of (c1, public, users) was drained and its
\* fetch failed, so the columns entry is still absent; the node was closed
\* and has just been opened again, and the request is queued a second time.
C15_Witness ==
    /\ last_call.op = "render_table_node_clicked"
    /\ last_call.args = <<"c1", "public", "users">>
    /\ last_error =
           Some(<<"Failed to load columns", <<"c1", "public", "users">>>>)
    /\ column_key("public", "users") \notin DOMAIN connections["c1"].columns
    /\ is_expanded(expanded_tables, table_key("c1", "public", "users"))
    /\ tables_needing_columns = << <<"c1", "public", "users">> >>

\* C17: whenever a frame has ended (the next step is a render pass) the three
\* fetch-need queues and the pending-action slot are empty; in every frame
\* the tree renders first, handle_tree_expansion_requests then receives the
\* whole content of the three queues and leaves them empty, and update then
\* takes the pending action, each exactly once.
C17_QueuesEmptyAtFrameEnd ==
    [][/\ phase' = "render" =>
            /\ schemas_needing_tables' = << >>
            /\ schemas_needing_objects' = << >>
            /\ tables_needing_columns' = << >>
            /\ pending_action' = None
       /\ last_call'.op \in RenderOps => phase = "render"
       /\ last_call'.op = "handle_tree_expansion_requests" =>
            /\ last_call.op \in RenderOps
            /\ last_call'.ret = <<schemas_needing_tables,
                                  tables_needing_columns,
                                  schemas_needing_objects>>
            /\ schemas_needing_tables' = << >>
            /\ schemas_needing_objects' = << >>
            /\ tables_needing_columns' = << >>
       /\ last_call'.op = "update" =>
            /\ last_call.op = "handle_tree_expansion_requests"
            /\ last_call'.ret = pending_action
            /\ pending_action' = None
      ]_vars

\* C17 witness: a frame has just ended with nothing waiting, after earlier
\* frames handed a pending action, a category request and a table request
\* to the controller.
C17_Witness ==
    /\ last_call.op = "update"
    /\ delivered # << >>
    /\ contains_key(connections, "c1")
    /\ "public" \in DOMAIN connections["c1"].tables
    /\ "public" \in DOMAIN connections["c1"].views
    /\ schemas_needing_tables = << >>
    /\ schemas_needing_objects = << >>
    /\ tables_needing_columns = << >>
    /\ pending_action = None

\* the requests of a drained queue whose connection the controller holds and
\* whose executor call succeeded
succeeded(items, outcomes, open) ==
    {items[i] : i \in {j \in 1..Len(items) :
                           items[j][1] \in open /\ outcomes[j] # None}}

\* C18: a render pass changes no cache; right after
\* handle_tree_expansion_requests, and still when the frame ends, the cache
\* entry of every drained request whose connection the controller holds and
\* whose executor call succeeded is present.
C18_FetchVisibleNextFrame ==
    [][/\ last_call'.op \in RenderOps => connections' = connections
       /\ last_call'.op = "handle_tree_expansion_requests" =>
            /\ \A item \in succeeded(schemas_needing_tables,
                                     last_call'.args[1], app_connections) :
                   item[2] \in DOMAIN connections'[item[1]].tables
            /\ \A item \in succeeded(tables_needing_columns,
                                     last_call'.args[2], app_connections) :
                   column_key(item[2], item[3])
                       \in DOMAIN connections'[item[1]].columns
            /\ \A item \in succeeded(schemas_needing_objects,
                                     last_call'.args[3], app_connections) :
                   item[2] \in DOMAIN category_cache(connections'[item[1]],
                                                     item[3])
       /\ last_call'.op = "update" =>
            /\ \A item \in succeeded(last_call.ret[1], last_call.args[1],
                                     app_connections \cap app_connections') :
                   item[2] \in DOMAIN connections'[item[1]].tables
            /\ \A item \in succeeded(last_call.ret[2], last_call.args[2],
                                     app_connections \cap app_connections') :
                   column_key(item[2], item[3])
                       \in DOMAIN connections'[item[1]].columns
            /\ \A item \in succeeded(last_call.ret[3], last_call.args[3],
                                     app_connections \cap app_connections') :
                   item[2] \in DOMAIN category_cache(connections'[item[1]],
                                                     item[3])
      ]_vars

\* C18 witness: the frame in which the column request of (c1, public, users)
\* was drained and answered has ended, and the columns entry is there for the
\* next render.
C18_Witness ==
    /\ last_call.op = "update"
    /\ last_call.ret = None
    /\ "c1" \in app_connections
    /\ is_expanded(expanded_tables, table_key("c1", "public", "users"))
    /\ column_key("public", "users") \in DOMAIN connections["c1"].columns
    /\ connections["c1"].columns[column_key("public", "users")] = <<"id">>
    /\ tables_needing_columns = << >>

-----------------------------------------------------------------------------
(* Claims checked under SpecCollapse *)

\* The operations that are one click on a node header.
NodeClickOps ==
    {"render_connection_node_clicked", "render_saved_connection_node_clicked",
     "render_schema_node_clicked", "render_object_category_clicked",
     "render_table_node_clicked"}

\* Some flag of the expansion map is open before and closed after.
closes(before, after) ==
    \E k \in DOMAIN before : before[k] /\ ~is_expanded(after, k)

\* C16: a click that takes the flag of a connection, saved-connection,
\* schema, category or table node from open to closed, and Collapse All,
\* leave the node map with all its cache maps and the three fetch-need queues
\* as they were.
C16_CollapseNeutral ==
    [][( \/ last_call'.op = "collapse_all"
         \/ /\ last_call'.op \in NodeClickOps
            /\ \/ closes(expanded_connections, expanded_connections')
               \/ closes(expanded_saved_connections,
                         expanded_saved_connections')
               \/ closes(expanded_schemas, expanded_schemas')
               \/ closes(expanded_object_categories,
                         expanded_object_categories')
               \/ closes(expanded_tables, expanded_tables') )
       => UNCHANGED <<connections, queues>>
      ]_vars

\* C16 witness: Collapse All has just emptied the flags of connections,
\* schemas and tables while a table list and the object counts are cached
\* and requests wait in the table-list and column queues.
C16_Witness ==
    /\ last_call.op = "collapse_all"
    /\ expanded_schemas = EmptyMap /\ expanded_tables = EmptyMap
    /\ contains_key(connections, "c1")
    /\ "public" \in DOMAIN connections["c1"].tables
    /\ "public" \in DOMAIN connections["c1"].object_counts
    /\ schemas_needing_tables # << >>
    /\ tables_needing_columns # << >>

\* C28: whenever Expand All turns the flag of a table node from closed to
\* open while the columns entry of the table is absent, the tuple of the
\* table is in tables_needing_columns afterwards.
C28_ExpandAllQueues ==
    [][last_call'.op = "expand_all"
       => \A c \in ConnIds, s \in SchemaNames, t \in TableNames :
            ( /\ ~is_expanded(expanded_tables, table_key(c, s, t))
              /\ is_expanded(expanded_tables', table_key(c, s, t))
              /\ columns_not_cached(c, s, t) )
            => \E i \in 1..Len(tables_needing_columns') :
                   tables_needing_columns'[i] = <<c, s, t>>
      ]_vars

-----------------------------------------------------------------------------
(* Claims checked under SpecCache *)

CacheMaps == {"tables", "columns", "views", "functions", "triggers",
              "sequences", "indexes", "object_counts"}

NodeFields == DOMAIN ConnectionNode_new("", "")

\* every node except that of connection id is the same before and after
other_nodes_unchanged(id) ==
    /\ DOMAIN connections' \ {id} = DOMAIN connections \ {id}
    /\ \A c \in DOMAIN connections \ {id} : connections'[c] = connections[c]

\* C19: after add_connection(id, name) the tree holds a node for id with an
\* empty schema list, every cache map empty and is_connected false, also
\* when a node with cached data existed for id before, and every other
\* connection's node is as it was.
C19_AddConnectionFresh ==
    [][last_call'.op = "add_connection"
       => LET id == last_call'.args[1] IN
          /\ id \in DOMAIN connections'
          /\ connections'[id].schemas = << >>
          /\ \A f \in CacheMaps : DOMAIN connections'[id][f] = {}
          /\ connections'[id].is_connected = FALSE
          /\ other_nodes_unchanged(id)
      ]_vars

\* C19 witness: c1 has just been added again; the open Tables category and
\* the open table "orders" show that its earlier node held a schema list,
\* counts and a table list, which are gone, while c2 keeps its table list.
C19_Witness ==
    /\ last_call.op = "add_connection"
    /\ last_call.args[1] = "c1"
    /\ contains_key(expanded_object_categories,
                    category_key("c1", "public", Tables))
    /\ contains_key(expanded_tables, table_key("c1", "public", "orders"))
    /\ connections["c1"] = ConnectionNode_new("c1", "Local")
    /\ contains_key(connections, "c2")
    /\ get_or(connections["c2"].tables, "public", << >>) = <<"users">>

\* the map setter operations with the cache map and the key each one writes
setter_field(op) ==
    CASE op = "set_tables" -> "tables"
      [] op = "set_columns" -> "columns"
      [] op = "set_object_counts" -> "object_counts"

setter_key(op, args) ==
    IF op = "set_columns" THEN column_key(args[2], args[3]) ELSE args[2]

setter_value(op, args) == args[Len(args)]

\* C20: a map setter on a known connection leaves exactly its value under
\* its key, every other key of that map, every other map of the node, every
\* other node, the expansion maps and the queues as they were; set_schemas
\* leaves exactly its list as the schema list and every cache map of the
\* node, the entries of schemas no longer listed included, as it was.
C20_SettersReplaceOwnKey ==
    [][/\ ( /\ last_call'.op \in {"set_tables", "set_columns",
                                  "set_object_counts"}
            /\ contains_key(connections, last_call'.args[1]) )
          => LET op == last_call'.op
                 args == last_call'.args
                 C == args[1]
                 X == setter_field(op)
                 S == setter_key(op, args)
             IN /\ DOMAIN connections'[C][X] = DOMAIN connections[C][X] \cup {S}
                /\ connections'[C][X][S] = setter_value(op, args)
                /\ \A k \in DOMAIN connections[C][X] \ {S} :
                       connections'[C][X][k] = connections[C][X][k]
                /\ \A f \in NodeFields \ {X} :
                       connections'[C][f] = connections[C][f]
                /\ other_nodes_unchanged(C)
                /\ UNCHANGED <<expansion, queues>>
       /\ ( /\ last_call'.op = "set_schemas"
            /\ contains_key(connections, last_call'.args[1]) )
          => LET C == last_call'.args[1]
             IN /\ connections'[C].schemas = last_call'.args[2]
                /\ \A f \in NodeFields \ {"schemas"} :
                       connections'[C][f] = connections[C][f]
                /\ other_nodes_unchanged(C)
                /\ UNCHANGED <<expansion, queues>>
      ]_vars

\* C20 witness: set_tables has just put [users] under "public" of c1; the
\* open table "orders" shows that the entry held [orders] before, the entry
\* of "audit", the columns and the counts of c1 and the table list of c2
\* are cached, a flag is set and a column request waits.
C20_Witness ==
    /\ last_call.op = "set_tables"
    /\ last_call.args = <<"c1", "public", <<"users">> >>
    /\ contains_key(expanded_tables, table_key("c1", "public", "orders"))
    /\ contains_key(connections, "c1")
    /\ connections["c1"].schemas = <<"public">>
    /\ connections["c1"].tables["public"] = <<"users">>
    /\ contains_key(connections["c1"].tables, "audit")
    /\ contains_key(connections["c1"].columns, column_key("public", "orders"))
    /\ contains_key(connections["c1"].object_counts, "public")
    /\ contains_key(expanded_schemas, schema_key("c1", "audit"))
    /\ tables_needing_columns # << >>
    /\ contains_key(connections, "c2")
    /\ contains_key(connections["c2"].tables, "public")

-----------------------------------------------------------------------------
(* Claims checked under SpecUnion *)

\* no two records of the saved list carry the same id
saved_ids_distinct ==
    \A i, j \in 1..Len(saved_connections) :
        saved_connections[i].id = saved_connections[j].id => i = j

\* C21 as stated: in every reachable state a render pass draws at most one
\* top-level node per connection id, an id with a saved record and a node is
\* drawn as saved-connection node only, and a plain connection node is
\* drawn only for an id without a saved record.
C21_RenderedOnce ==
    \A id \in UnionIds :
        /\ nodes_drawn_for(id) <= 1
        /\ (id \in saved_ids /\ contains_key(connections, id))
               => ~connection_node_rendered(id)
        /\ connection_node_rendered(id) => id \notin saved_ids

\* C21 amended: the preference of the saved view holds in every state, and
\* an id is drawn at most once in every state whose saved list carries
\* every id once.
C21_RenderedOnceDistinctSaved ==
    \A id \in UnionIds :
        /\ saved_ids_distinct => nodes_drawn_for(id) <= 1
        /\ (id \in saved_ids /\ contains_key(connections, id))
               => ( /\ ~connection_node_rendered(id)
                    /\ tree_content_rendered
                           => saved_connection_node_rendered(id) )
        /\ connection_node_rendered(id) => id \notin saved_ids

\* C21 witness: c1 is saved and has a node, c2 has a node only; the pass
\* draws c1 once, as saved-connection node, and c2 once, as plain node.
C21_Witness ==
    /\ tree_content_rendered
    /\ saved_connections = <<[id |-> "c1", name |-> "Local"]>>
    /\ contains_key(connections, "c1") /\ contains_key(connections, "c2")
    /\ saved_connection_node_rendered("c1")
    /\ ~connection_node_rendered("c1")
    /\ connection_node_rendered("c2")
    /\ nodes_drawn_for("c1") = 1 /\ nodes_drawn_for("c2") = 1

-----------------------------------------------------------------------------
(* Claims checked under SpecKeys *)

\* the expansion flag render_table_node reads for a table
table_expanded(path) ==
    is_expanded(expanded_tables, table_key(path[1], path[2], path[3]))

\* the column list render_table_node finds for a table, if any
table_columns(path) ==
    IF /\ contains_key(connections, path[1])
       /\ contains_key(connections[path[1]].columns,
                       column_key(path[2], path[3]))
    THEN Some(connections[path[1]].columns[column_key(path[2], path[3])])
    ELSE None

\* C22: two distinct tables never have the same expanded_tables key or the
\* same columns key, so a click on the node of one table leaves the flag of
\* every other table as it was, and storing the columns of one table leaves
\* the column list of every other table as it was.
C22_PathKeysUnique ==
    [][\A p, q \in KeyPaths :
         p # q =>
           /\ table_key(p[1], p[2], p[3]) # table_key(q[1], q[2], q[3])
           /\ p[1] = q[1] => column_key(p[2], p[3]) # column_key(q[2], q[3])
           /\ ( /\ last_call'.op = "render_table_node_clicked"
                /\ last_call'.args = p )
              => table_expanded(q)' = table_expanded(q)
           /\ ( /\ last_call'.op = "set_columns"
                /\ SubSeq(last_call'.args, 1, 3) = p )
              => table_columns(q)' = table_columns(q)
      ]_vars

\* C30: add_connection leaves every expansion map, the three queues, the
\* selection and the pending action as they were; a category or table of
\* the id that was flagged open stays flagged open, its cache entry is
\* absent afterwards and no fetch-need was added for it.
C30_AddConnectionOnlyNodes ==
    [][last_call'.op = "add_connection"
       => LET id == last_call'.args[1] IN
          /\ UNCHANGED <<expansion, queues, selected_item, pending_action>>
          /\ \A k \in DOMAIN expanded_object_categories :
                 expanded_object_categories'[k] = expanded_object_categories[k]
          /\ \A k \in DOMAIN expanded_tables :
                 expanded_tables'[k] = expanded_tables[k]
          /\ DOMAIN connections'[id].tables = {}
          /\ DOMAIN connections'[id].columns = {}
      ]_vars

\* C30 witness: c1 has just been added again with its Tables category and
\* its table "orders" flagged open; neither the table list nor the columns
\* are cached any more and no request for them waits.
C30_Witness ==
    /\ last_call.op = "add_connection"
    /\ last_call.args[1] = "c1"
    /\ is_expanded(expanded_object_categories,
                   category_key("c1", "public", Tables))
    /\ is_expanded(expanded_tables, table_key("c1", "public", "orders"))
    /\ ~contains_key(connections["c1"].tables, "public")
    /\ ~contains_key(connections["c1"].columns, column_key("public", "orders"))
    /\ schemas_needing_tables = << >>
    /\ tables_needing_columns = << >>

-----------------------------------------------------------------------------
(* Claims checked under SpecSettings *)

\* the records of a list whose id is not id, in order
others(list, id) == without_id(list, id)

\* the number of records of a list with the id
count_id(list, id) == Cardinality({i \in 1..Len(list) : list[i].id = id})

\* C24: add_connection of a connection that fails validation, or whose name
\* a saved connection with another id uses, returns an error and leaves the
\* list as it was; add_connection of a valid connection whose id is saved
\* puts the connection in the place of that record (the other records are
\* kept, the id occurs once), and no id ever occurs twice in the list.
C24_AddConnectionRejectsAndReplaces ==
    [][last_call'.op = "AppSettings::add_connection"
       => LET c == last_call'.args[1]
              list == settings_connections
              rejected == \/ ~validate(c).ok
                          \/ \E i \in 1..Len(list) :
                                 list[i].name = c.name /\ list[i].id # c.id
          IN /\ rejected => /\ ~last_call'.ret.ok
                             /\ settings_connections' = list
             /\ (~rejected /\ c.id \in ids_of(list))
                    => /\ last_call'.ret.ok
                       /\ \E i \in 1..Len(settings_connections') :
                              settings_connections'[i] = c
                       /\ others(settings_connections', c.id)
                              = others(list, c.id)
                       /\ Len(settings_connections') = Len(list)
             /\ \A id \in ids_of(settings_connections') :
                    count_id(settings_connections', id) = 1
      ]_vars

\* C24 witness: c1 was saved and duplicated, and add_connection has just
\* been called with a valid c1 of another host: the one record of c1 is the
\* new one, behind the duplicate.
C24_Witness ==
    /\ last_call.op = "AppSettings::add_connection"
    /\ last_call.ret.ok
    /\ Len(settings_connections) = 2
    /\ settings_connections[1].name = "Local (Copy)"
    /\ settings_connections[1].host = "localhost"
    /\ settings_connections[2] = last_call.args[1]
    /\ settings_connections[2].id = "c1"
    /\ settings_connections[2].host = "db"

\* what the claims about unsaved ids share: the call fails and the list is
\* as it was
fails_unchanged ==
    /\ ~last_call'.ret.ok
    /\ settings_connections' = settings_connections

SettingsIdOps ==
    {"AppSettings::update_connection", "AppSettings::remove_connection",
     "AppSettings::duplicate_connection"}

\* the id a call of update, remove or duplicate names
named_id(call) ==
    IF call.op = "AppSettings::update_connection" THEN call.args[1].id
    ELSE call.args[1]

\* remove_connection of a saved id deletes exactly the record of the id and
\* returns it
removes_exactly ==
    LET id == last_call'.args[1]
        list == settings_connections
    IN /\ last_call'.ret.ok
       /\ last_call'.ret.value.id = id
       /\ \E i \in 1..Len(list) :
              /\ list[i] = last_call'.ret.value
              /\ settings_connections' = remove_at(list, i)
       /\ id \notin ids_of(settings_connections')

\* update_connection replaces exactly the record of the id, in place
replaces_in_place ==
    LET c == last_call'.args[1]
        list == settings_connections
    IN /\ last_call'.ret.ok
       /\ Len(settings_connections') = Len(list)
       /\ \A i \in 1..Len(list) :
              settings_connections'[i] = IF list[i].id = c.id THEN c
                                         ELSE list[i]

\* C25 as stated: update, remove and duplicate with an id that is not saved
\* fail and leave the list as it was; with a saved id update replaces
\* exactly that record in place and remove deletes exactly that record and
\* returns it.
C25_UnknownIdFails ==
    [][last_call'.op \in SettingsIdOps
       => IF named_id(last_call') \notin ids_of(settings_connections)
          THEN fails_unchanged
          ELSE /\ last_call'.op = "AppSettings::update_connection"
                      => replaces_in_place
               /\ last_call'.op = "AppSettings::remove_connection"
                      => removes_exactly
      ]_vars

\* C25 amended: as stated, but update of a saved id replaces the record only
\* when the new connection passes validation and no record of another id
\* has its name; otherwise it fails and leaves the list as it was.
C25_UnknownIdFailsValidUpdateReplaces ==
    [][last_call'.op \in SettingsIdOps
       => IF named_id(last_call') \notin ids_of(settings_connections)
          THEN fails_unchanged
          ELSE /\ last_call'.op = "AppSettings::update_connection"
                      => IF /\ validate(last_call'.args[1]).ok
                            /\ \A i \in 1..Len(settings_connections) :
                                   settings_connections[i].name
                                       = last_call'.args[1].name
                                   => settings_connections[i].id
                                          = last_call'.args[1].id
                         THEN replaces_in_place
                         ELSE fails_unchanged
               /\ last_call'.op = "AppSettings::remove_connection"
                      => removes_exactly
      ]_vars

\* C25 witness: c1 was saved and duplicated, and update_connection has just
\* put a c1 of another host in the first place of the list, before the
\* duplicate made of the old record.
C25_Witness ==
    /\ last_call.op = "AppSettings::update_connection"
    /\ last_call.ret.ok
    /\ Len(settings_connections) = 2
    /\ settings_connections[1] = last_call.args[1]
    /\ settings_connections[1].host = "db"
    /\ settings_connections[2].name = "Local (Copy)"
    /\ settings_connections[2].host = "localhost"

\* C26: duplicate_connection of a saved id appends exactly one record; its
\* id is no saved id, its name is no saved name, its host, port, database,
\* user name and password are those of the original, and every record that
\* was in the list, the original included, is as it was.
C26_DuplicateAppendsUnique ==
    [][( /\ last_call'.op = "AppSettings::duplicate_connection"
         /\ last_call'.args[1] \in ids_of(settings_connections) )
       => LET list == settings_connections
              original == list[position(list, last_call'.args[1])]
              copy == settings_connections'[Len(list) + 1]
          IN /\ Len(settings_connections') = Len(list) + 1
             /\ SubSeq(settings_connections', 1, Len(list)) = list
             /\ last_call'.ret = Ok(copy)
             /\ copy.id \notin ids_of(list)
             /\ copy.name \notin names_of(list)
             /\ copy.host = original.host
             /\ copy.port = original.port
             /\ copy.database = original.database
             /\ copy.username = original.username
             /\ copy.password = original.password
      ]_vars

\* C26 witness: c1 "Local" has been duplicated under the name "Local" three
\* times over; the last copy got the suffix (2) after (1) was found taken.
C26_Witness ==
    /\ last_call.op = "AppSettings::duplicate_connection"
    /\ last_call.ret.ok
    /\ last_call.ret.value.name = "Local (2)"
    /\ Len(settings_connections) = 3
    /\ settings_connections[1] = Params("c1", "Local")
    /\ settings_connections[2].name = "Local (1)"
    /\ settings_connections[3] = last_call.ret.value

-----------------------------------------------------------------------------
(* Claims checked under SpecDialog *)

\* C27: the dialog starts hidden and with no result to take; the two show
\* methods make it showing and clear both results; a click on the confirm
\* or the cancel button hides it and leaves exactly one result set, the one
\* of the button; a result becomes set through a click only, take_confirmed
\* and take_cancelled return the result and clear it, so each returns true
\* at most once per click; close hides the dialog and clears both results.
C27_DialogStateMachine ==
    [][LET op == last_call'.op
           before == confirmation_dialog
           after == confirmation_dialog'
       IN /\ ~ConfirmationDialog_default.show
          /\ ( /\ before = ConfirmationDialog_default
               /\ op \in {"ConfirmationDialog::take_confirmed",
                           "ConfirmationDialog::take_cancelled"} )
             => last_call'.ret = FALSE
          /\ op \in {"ConfirmationDialog::show_delete_confirmation",
                      "ConfirmationDialog::show_confirmation"}
             => after.show /\ ~after.confirmed /\ ~after.cancelled
          /\ ( /\ op = "ConfirmationDialog::render"
               /\ last_call'.args[1] \in DialogButtons )
             => /\ ~after.show
                /\ after.confirmed = (last_call'.args[1] = "confirm")
                /\ after.cancelled = (last_call'.args[1] = "cancel")
          /\ ( \/ ~before.confirmed /\ after.confirmed
               \/ ~before.cancelled /\ after.cancelled )
             => /\ op = "ConfirmationDialog::render"
                /\ last_call'.args[1] \in DialogButtons
          /\ op = "ConfirmationDialog::take_confirmed"
             => /\ last_call'.ret = before.confirmed
                /\ ~after.confirmed
                /\ after.cancelled = before.cancelled
                /\ after.show = before.show
          /\ op = "ConfirmationDialog::take_cancelled"
             => /\ last_call'.ret = before.cancelled
                /\ ~after.cancelled
                /\ after.confirmed = before.confirmed
                /\ after.show = before.show
          /\ op = "ConfirmationDialog::close"
             => ~after.show /\ ~after.confirmed /\ ~after.cancelled
      ]_vars

\* C27 witness: the delete confirmation was shown and confirmed, and
\* take_confirmed has just returned true and cleared the result.
C27_Witness ==
    /\ last_call.op = "ConfirmationDialog::take_confirmed"
    /\ last_call.ret = TRUE
    /\ confirmation_dialog.title = "Delete Connection"
    /\ ~confirmation_dialog.show
    /\ ~confirmation_dialog.confirmed
    /\ ~confirmation_dialog.cancelled

-----------------------------------------------------------------------------
(* Claims checked under SpecIntent *)

\* What C23 names of the tree: the connection nodes with their caches, the
\* expansion maps of schemas, categories and tables, and the queues.
tree_nodes_and_needs ==
    <<connections, expanded_schemas, expanded_object_categories,
      expanded_tables, queues>>

OutsideTreeActions == {Edit, Duplicate, Delete, CopyUrl}

\* C23: in the frame in which an Edit, Duplicate, Delete or CopyUrl action is
\* drained, neither the click that wrote it, nor the drains of the queues, nor
\* its dispatch in update changes the set of ConnectionNodes, their caches,
\* the expansion maps of schemas, categories and tables, or the queues.
C23_OnlyConnectChangesNodes ==
    [][/\ ( /\ last_call'.op = "render_saved_connection_node_menu_clicked"
            /\ last_call'.args[2] \in OutsideTreeActions )
          => UNCHANGED tree_nodes_and_needs
       /\ ( /\ last_call'.op = "handle_tree_expansion_requests"
            /\ pending_action # None
            /\ pending_action[1][1] \in OutsideTreeActions )
          => UNCHANGED tree_nodes_and_needs
       /\ ( /\ last_call'.op = "update"
            /\ last_call'.ret # None
            /\ last_call'.ret[1][1] \in OutsideTreeActions )
          => UNCHANGED tree_nodes_and_needs]_vars

\* C23 witness: a Duplicate of c1 was drained and appended its copy to the
\* saved list while c1 was connected with its schemas cached and a schema
\* node expanded.
C23_Witness ==
    /\ last_call.op = "update"
    /\ last_call.ret = Some(<<Duplicate, "c1">>)
    /\ Len(saved_connections) = 2
    /\ "c1" \in DOMAIN connections
    /\ connections["c1"].schemas # << >>
    /\ \E k \in DOMAIN expanded_schemas : expanded_schemas[k]

-----------------------------------------------------------------------------
(* Claims checked under SpecFrame: the outcome of Connect *)

\* C29: update drained a Connect that names a saved connection.  If the
\* connect succeeded, then after update the tree holds a node for the id with
\* is_connected = TRUE, the controller holds a connection under the id, and
\* the loading flag is FALSE, whatever the schema fetch returned; if the
\* connect failed, the connection nodes are unchanged and last_error is set.
C29_ConnectOutcome ==
    [][( /\ last_call'.op = "update"
         /\ last_call'.ret # None
         /\ last_call'.ret[1][1] = Connect
         /\ last_call'.ret[1][2] \in saved_ids )
       => LET id == last_call'.ret[1][2]
              connect_ok == last_call'.args[1]
          IN /\ connect_ok =>
                   /\ id \in DOMAIN connections'
                   /\ connections'[id].is_connected
                   /\ id \in app_connections'
                   /\ ~is_loading'
             /\ ~connect_ok =>
                   /\ connections' = connections
                   /\ last_error' # None]_vars

\* C29 witness: the Connect of c1 succeeded and the schema fetch failed: the
\* node is there and connected with no schemas, the loading flag is FALSE
\* and the error of the fetch is recorded.
C29_Witness ==
    /\ last_call.op = "update"
    /\ last_call.ret = Some(<<Connect, "c1">>)
    /\ last_call.args[1]
    /\ last_call.args[2] = None
    /\ "c1" \in DOMAIN connections
    /\ connections["c1"].is_connected
    /\ connections["c1"].schemas = << >>
    /\ "c1" \in app_connections
    /\ ~is_loading
    /\ last_error # None

\* C29 witness of the other branch: the Connect of c1 failed.
C29_WitnessFailed ==
    /\ last_call.op = "update"
    /\ last_call.ret = Some(<<Connect, "c1">>)
    /\ ~last_call.args[1]
    /\ "c1" \notin DOMAIN connections
    /\ last_error # None

-----------------------------------------------------------------------------
(* Claims checked under SpecRemove *)

\* HashMap::get as an Option
entry_of(m, k) == IF k \in DOMAIN m THEN Some(m[k]) ELSE None

\* everything the tree holds under connection D: its node with the caches,
\* and the expansion entries of D, of its schema, category and table nodes
held_under(D) ==
    <<entry_of(connections, D),
      entry_of(expanded_connections, D),
      entry_of(expanded_schemas, schema_key(D, "public")),
      entry_of(expanded_object_categories,
               category_key(D, "public", Tables)),
      entry_of(expanded_tables, table_key(D, "public", "users"))>>

\* C31: remove_connection(C) leaves, for every other connection D, the node
\* of D with its caches and every expansion entry of D, of its schemas and of
\* its tables as they were.
C31_RemoveAffectsOnlyTarget ==
    [][last_call'.op = "remove_connection"
       => \A D \in RemoveIds \ {last_call'.args[1]} :
              held_under(D)' = held_under(D)]_vars

-----------------------------------------------------------------------------
(* Claims checked under SpecNeeds *)

DrainOps ==
    {"get_schemas_needing_tables", "get_schemas_needing_objects",
     "get_tables_needing_columns", "get_pending_action"}

\* what the drain named op hands out
drained_field(op) ==
    CASE op = "get_schemas_needing_tables" -> schemas_needing_tables
      [] op = "get_schemas_needing_objects" -> schemas_needing_objects
      [] op = "get_tables_needing_columns" -> tables_needing_columns
      [] op = "get_pending_action" -> pending_action

\* C32: remove_connection leaves the three queues, the pending action and
\* the selected item as they were, and every drain returns all that its queue
\* or slot held, so what was queued for C before the removal is returned by
\* the next drain and a selection that refers to C stays selected.
C32_RemoveKeepsNeedsAndSelection ==
    [][/\ last_call'.op = "remove_connection"
          => UNCHANGED <<queues, pending_action, selected_item>>
       /\ last_call'.op \in DrainOps
          => last_call'.ret = drained_field(last_call'.op)]_vars

\* C32 witness: c1 was removed while a tables request, a columns request and
\* a Delete action for c1 were outstanding and c1 was the selected item.
C32_Witness ==
    /\ last_call.op = "remove_connection"
    /\ ~contains_key(connections, "c1")
    /\ \E i \in 1..Len(schemas_needing_tables) :
           schemas_needing_tables[i][1] = "c1"
    /\ \E i \in 1..Len(tables_needing_columns) :
           tables_needing_columns[i][1] = "c1"
    /\ pending_action = Some(<<Delete, "c1">>)
    /\ selected_item # None
    /\ selected_item[1].connection_id = "c1"

\* C32 witness of the drain: after the removal of c1 a drain returned a
\* request that names c1.
C32_WitnessDrained ==
    /\ last_call.op = "get_schemas_needing_tables"
    /\ ~contains_key(connections, "c1")
    /\ last_call.ret # << >>
    /\ last_call.ret[1][1] = "c1"

-----------------------------------------------------------------------------
(* Claims checked under SpecFrame: a failed counts fetch *)

\* schema S of connection c is listed and has no object_counts entry
counts_missing(c, S) ==
    /\ contains_key(connections, c)
    /\ \E i \in 1..Len(connections[c].schemas) : connections[c].schemas[i] = S
    /\ ~contains_key(connections[c].object_counts, S)

\* a queue holds a request for schema S of connection c
need_queued(c, S) ==
    \/ \E i \in 1..Len(schemas_needing_tables) :
           schemas_needing_tables[i] = <<c, S>>
    \/ \E i \in 1..Len(schemas_needing_objects) :
           /\ schemas_needing_objects[i][1] = c
           /\ schemas_needing_objects[i][2] = S
    \/ \E i \in 1..Len(tables_needing_columns) :
           /\ tables_needing_columns[i][1] = c
           /\ tables_needing_columns[i][2] = S

\* the step is load_database_structure for a new node of c: update drained
\* a Connect of c and the connect succeeded
node_replaced(c) ==
    /\ last_call'.op = "update"
    /\ last_call'.ret = Some(<<Connect, c>>)
    /\ last_call'.args[1]

-----------------------------------------------------------------------------
(* Claims checked under SpecController *)

\* the frame has ended: update has returned, or the controller was just built
frame_boundary == phase = "render" \/ phase = "start"

\* C34: at every frame boundary the ids that hold an open connection in the
\* controller are the ids that have a ConnectionNode in the tree, and
\* active_connection is None or one of them.
C34_OpenConnectionsAreNodes ==
    frame_boundary =>
        /\ app_connections = DOMAIN connections
        /\ active_connection = None \/ active_connection[1] \in app_connections

\* C34 witness: c1 and u1 were connected, c1 last; then the deletion of c1
\* was confirmed: u1 is still open and has its node, and no connection is
\* active.
C34_Witness ==
    /\ last_call.op = "update"
    /\ last_call.args[4] = "confirm"
    /\ app_connections = {"u1"}
    /\ DOMAIN connections = {"u1"}
    /\ active_connection = None

\* C35: at every frame boundary the tree, the controller and the settings
\* hold the same saved records in the same order.
C35_SavedListsAgree ==
    frame_boundary =>
        /\ saved_connections = app_saved_connections
        /\ app_saved_connections = settings_connections

\* C35 witness: u1 was saved and connected from the dialog, c1 was updated
\* to another name and then duplicated, and the three lists hold the three
\* records.
C35_Witness ==
    /\ last_call.op = "update"
    /\ last_call.ret = Some(<<Duplicate, "c1">>)
    /\ Len(settings_connections) = 3
    /\ "u1" \in app_connections
    /\ \E i \in 1..3 : /\ settings_connections[i].id = "c1"
                       /\ settings_connections[i].name = "Dev"
    /\ saved_connections = settings_connections
    /\ app_saved_connections = settings_connections

\* the ids that a step takes out of the settings
removed_ids == ids_of(settings_connections) \ ids_of(settings_connections')

\* C36: a step takes a saved connection out of the settings only if it is an
\* update in which the confirmation dialog reports confirmed, and then the
\* connection is the one that pending_connection_deletion names; a drained
\* Delete makes its id the pending one; an update in which the dialog is
\* cancelled clears pending_connection_deletion and removes nothing.
C36_RemovalOnlyOnConfirm ==
    [][/\ removed_ids # {}
          => /\ last_call'.op = "update"
             /\ last_call'.args[4] = "confirm"
             /\ removed_ids = {pending_connection_deletion[1]}
       /\ ( /\ last_call'.op = "update"
            /\ last_call'.ret # None
            /\ last_call'.ret[1][1] = Delete )
          => pending_connection_deletion' = Some(last_call'.ret[1][2])
       /\ ( /\ last_call'.op = "update"
            /\ last_call'.args[4] = "cancel" )
          => /\ pending_connection_deletion' = None
             /\ settings_connections' = settings_connections]_vars

\* C36 witness: Delete was drained for c1 and then for u1, and the
\* confirmation removed u1, the later of the two, and left c1.
C36_Witness ==
    /\ last_call.op = "update"
    /\ last_call.args[4] = "confirm"
    /\ ids_of(settings_connections) = {"c1"}
    /\ delivered = <<1, 2>>
    /\ pending_connection_deletion = None

\* C36 witness of the cancellation: the deletion of c1 was cancelled.
C36_WitnessCancelled ==
    /\ last_call.op = "update"
    /\ last_call.args[4] = "cancel"
    /\ "c1" \in ids_of(settings_connections)
    /\ pending_connection_deletion = None

\* C37: after the update in which the deletion of the pending id is
\* confirmed, the id is in none of the three saved lists, holds no open
\* connection and no ConnectionNode, is not the active connection and has
\* no entry in expanded_saved_connections.
C37_DeletedLeavesNothing ==
    [][( /\ last_call'.op = "update"
         /\ last_call'.args[4] = "confirm"
         /\ pending_connection_deletion # None )
       => LET id == pending_connection_deletion[1]
          IN /\ id \notin ids_of(settings_connections')
             /\ id \notin ids_of(app_saved_connections')
             /\ id \notin ids_of(saved_connections')
             /\ id \notin app_connections'
             /\ ~contains_key(connections', id)
             /\ active_connection' # Some(id)
             /\ ~contains_key(expanded_saved_connections', id)]_vars

\* C37 witness: the header of c1 had been clicked, which gave c1 an entry in
\* expanded_saved_connections and made it the selected item, and two
\* actions of its menu had been drained when its deletion was confirmed:
\* no list holds c1 and the expansion entry is gone.
C37_Witness ==
    /\ last_call.op = "update"
    /\ last_call.args[4] = "confirm"
    /\ selected_item = Some([item |-> "SavedConnection",
                             connection_id |-> "c1"])
    /\ delivered = <<1, 2>>
    /\ "c1" \notin ids_of(settings_connections)
    /\ "c1" \notin ids_of(saved_connections)
    /\ ~contains_key(expanded_saved_connections, "c1")
    /\ ~contains_key(connections, "c1")

-----------------------------------------------------------------------------
(* Claims checked under SpecLoading *)

\* the clicks on the nodes that render_tree_content draws
TreeContentOps ==
    NodeClickOps \cup
    {"render_connection_node_secondary_clicked",
     "render_saved_connection_node_double_clicked",
     "render_saved_connection_node_connect_clicked",
     "render_saved_connection_node_menu_clicked"}

\* the buttons of the toolbar that change every expansion flag at once
ToolbarExpansionOps == {"expand_all", "collapse_all"}

\* C38: while is_loading is TRUE no step is a click on a node of the tree
\* content, so no step selects an item, adds a request to a queue or writes
\* a pending action, and the expansion maps are changed by nothing but
\* the toolbar's Expand All and Collapse All and by clear; and a step takes
\* is_loading from TRUE to FALSE only if it is set_schemas,
\* set_loading(false) or clear.
C38_LoadingFreezesTree ==
    [][is_loading =>
          /\ last_call'.op \notin TreeContentOps
          /\ selected_item' = selected_item \/ last_call'.op = "clear"
          /\ Len(schemas_needing_tables') <= Len(schemas_needing_tables)
          /\ Len(schemas_needing_objects') <= Len(schemas_needing_objects)
          /\ Len(tables_needing_columns') <= Len(tables_needing_columns)
          /\ pending_action' = pending_action \/ pending_action' = None
          /\ expansion' = expansion
             \/ last_call'.op \in ToolbarExpansionOps \cup {"clear"}
          /\ ~is_loading' =>
                \/ last_call'.op = "set_schemas"
                \/ last_call'.op = "clear"
                \/ /\ last_call'.op = "set_loading"
                   /\ last_call'.args = <<FALSE>>]_vars

\* C38 witness: Refresh set the flag while the node of c1 had its schema and
\* counts loaded and its category closed; a drain has run since and the
\* flag is still set.
C38_Witness ==
    /\ is_loading
    /\ last_call.op = "get_schemas_needing_tables"
    /\ contains_key(connections, "c1")
    /\ connections["c1"].schemas = <<"public">>
    /\ contains_key(connections["c1"].object_counts, "public")
    /\ saved_connections # << >>
    /\ ~contains_key(expanded_object_categories,
                     category_key("c1", "public", Tables))

-----------------------------------------------------------------------------
(* Claims checked under SpecSettings: the saved list as a whole *)

\* C39: from empty settings, after any calls of add_connection,
\* update_connection, duplicate_connection and remove_connection, whether
\* they succeed or fail, no two saved connections have the same id and no
\* two have the same name.
C39_IdsAndNamesDistinct ==
    \A i, j \in 1..Len(settings_connections) :
        i # j => /\ settings_connections[i].id # settings_connections[j].id
                 /\ settings_connections[i].name
                        # settings_connections[j].name

\* C39 witness: three records are saved, one of them a duplicate that was
\* given a numbered name because its first name was taken, and the last call
\* failed.
C39_Witness ==
    /\ Len(settings_connections) = 3
    /\ \E i \in 1..3 : settings_connections[i].name = "Local (1)"
    /\ ~last_call.ret.ok

=============================================================================
